---- MODULE Spec2Model ----
(***************************************************************************)
(* A model of grug-ls: the document model (Document::new), the scope       *)
(* resolver (get_spot_info), the position locator (get_nearest_node), the  *)
(* hover / completion / rename consumers and the range-tracking schema     *)
(* loader (ModApi::from_json).                                             *)
(*                                                                         *)
(* Text is a sequence of one-character strings.  A syntax tree is a flat   *)
(* table of nodes in pre-order, each with its kind, its field name in the  *)
(* parent, its parent, its children and its byte / point range, which is   *)
(* what tree_sitter::Tree offers to the code.                              *)
(***************************************************************************)
EXTENDS Integers, Sequences, FiniteSets, TLC

VARIABLES document, mod_api, response, trail,
          messages_chan, watcher_recv, mod_api_file, worker,
          document_map, file_system, wrapper, stores

\* the schema watcher: the channel to the server, the channel of file
\* events, the file mod_api.json and the worker thread; stores is the
\* history of the channel: the store the server started with and the stores
\* the worker sent since, in the order of sending (kept in SpecOrdered only)
watcher_vars == <<messages_chan, watcher_recv, mod_api_file, worker, stores>>

\* the open documents by path, the paths of the in-memory file system, and
\* the ServerWrapper variant the message loop holds
sync_vars == <<document_map, file_system, wrapper>>

vars == <<document, mod_api, response, trail, watcher_vars, sync_vars>>

(***************************************************************************)
(* Generic helpers                                                         *)
(***************************************************************************)
Repeat(c, n) == [i \in 1..n |-> c]

\* the elements of a set of integers in increasing order
SetToSeq(S) ==
    [i \in 1..Cardinality(S) |-> CHOOSE x \in S : Cardinality({y \in S : y < x}) = i - 1]

RECURSIVE Concat(_)
Concat(ss) == IF ss = <<>> THEN <<>> ELSE Head(ss) \o Concat(Tail(ss))

Range(s) == {s[i] : i \in 1..Len(s)}

(***************************************************************************)
(* Names and token texts                                                   *)
(***************************************************************************)
nA == <<"a">>
nB == <<"b">>
nC == <<"c">>
nD == <<"d">>
nNo == <<"n", "o">>
nStr == <<"s", "t", "r">>
nF == <<"f">>
nG == <<"g">>
nX == <<"x", "y">>
nPrint == <<"p", "r", "i", "n", "t">>
nOnSpawn == <<"o", "n", "_", "s", "p", "a", "w", "n">>
nOnTick == <<"o", "n", "_", "t", "i", "c", "k">>
tI32 == <<"i", "3", "2">>
tF32 == <<"f", "3", "2">>
tString == <<"s", "t", "r", "i", "n", "g">>
tBool == <<"b", "o", "o", "l">>
tId == <<"i", "d">>
tResource == <<"r", "e", "s", "o", "u", "r", "c", "e">>
tGun == <<"g", "u", "n">>
tBox == <<"b", "o", "x">>

(***************************************************************************)
(* Source trees.  A source text is given as its concrete syntax tree: the  *)
(* leaves carry the token text and the white space in front of the token   *)
(* (nl newlines, then sp spaces), so the text is the concatenation of the  *)
(* leaves.  This is the view the external parser (tree-sitter-grug) gives  *)
(* of a well-formed text.                                                  *)
(***************************************************************************)
Tok(kind, field, text, nl, sp) ==
    [leaf |-> TRUE, kind |-> kind, field |-> field, text |-> text,
     nl |-> nl, sp |-> sp, children |-> <<>>]

Inner(kind, field, children) ==
    [leaf |-> FALSE, kind |-> kind, field |-> field, text |-> <<>>,
     nl |-> 0, sp |-> 0, children |-> children]

KeywordText(kind) ==
    CASE kind = "if" -> <<"i", "f">>
      [] kind = "else" -> <<"e", "l", "s", "e">>
      [] kind = "while" -> <<"w", "h", "i", "l", "e">>
      [] kind = "return" -> <<"r", "e", "t", "u", "r", "n">>
      [] kind = "not" -> <<"n", "o", "t">>
      [] kind = "==" -> <<"=", "=">>
      [] OTHER -> <<kind>>

\* anonymous tokens: punctuation, keywords and operators
Punct(kind, field, nl, sp) == Tok(kind, field, KeywordText(kind), nl, sp)

AnonymousKinds ==
    {":", "=", "(", ")", "{", "}", ",", "if", "else", "while", "return",
     "not", "+", "-", "==", "<"}

IsNamed(kind) == kind \notin AnonymousKinds

Ident(field, name, nl, sp) == Tok("identifier", field, name, nl, sp)
Number(field, text, sp) == Tok("number", field, text, 0, sp)
Boolean(field, sp) == Tok("boolean", field, <<"t", "r", "u", "e">>, 0, sp)
\* a string literal is one token, quotes included
String(field, inside, sp) == Tok("string", field, <<"\"">> \o inside \o <<"\"">>, 0, sp)
Comment(inside, nl, sp) == Tok("comment", "", <<"#">> \o inside, nl, sp)

\* name: type = value
VarDecl(name, type, value, nl, sp) ==
    Inner("variable_declaration", "",
          <<Ident("name", name, nl, sp), Punct(":", "", 0, 0),
            Tok("type", "type", type, 0, 1), Punct("=", "", 0, 1), value>>)

\* name = value
Assignment(name, value, nl, sp) ==
    Inner("assignment", "",
          <<Ident("name", name, nl, sp), Punct("=", "", 0, 1), value>>)

RECURSIVE CommaSeparated(_)
CommaSeparated(items) ==
    IF Len(items) <= 1 THEN items
    ELSE <<Head(items), Punct(",", "", 0, 0)>> \o CommaSeparated(Tail(items))

Argument(expr) == Inner("argument", "argument", <<expr>>)

\* name(arg, arg); the first argument follows "(" directly, the others a space
FunctionCall(field, nameKind, name, args, nl, sp) ==
    Inner("function_call", field,
          <<Tok(nameKind, "name", name, nl, sp), Punct("(", "", 0, 0)>>
          \o CommaSeparated([i \in 1..Len(args) |-> Argument(args[i])])
          \o <<Punct(")", "", 0, 0)>>)

BinaryExpression(field, left, op, right) ==
    Inner("binary_expression", field, <<left, Punct(op, "operator", 0, 1), right>>)

UnaryExpression(field, op, operand, sp) ==
    Inner("unary_expression", field, <<Punct(op, "operator", 0, sp), operand>>)

ContainedExpression(field, expr, sp) ==
    Inner("contained_expression", field,
          <<Punct("(", "", 0, sp), expr, Punct(")", "", 0, 0)>>)

ReturnStatement(value, nl, sp) ==
    Inner("return_statement", "", <<Punct("return", "", nl, sp), value>>)

\* { statements } with the closing brace on its own line at column ind
Body(field, stmts, ind) ==
    Inner("body", field,
          <<Punct("{", "", 0, 1)>> \o stmts \o <<Punct("}", "", 1, ind)>>)

IfStatement(cond, stmts, nl, ind) ==
    Inner("if_statement", "",
          <<Punct("if", "", nl, ind), cond, Body("body", stmts, ind)>>)

IfElseStatement(cond, stmts, elseStmts, nl, ind) ==
    Inner("if_statement", "",
          <<Punct("if", "", nl, ind), cond, Body("body", stmts, ind),
            Punct("else", "", 0, 1), Body("else", elseStmts, ind)>>)

WhileStatement(cond, stmts, nl, ind) ==
    Inner("while_statement", "",
          <<Punct("while", "", nl, ind), cond, Body("body", stmts, ind)>>)

FunctionParameter(name, type, sp) ==
    Inner("function_parameter", "param",
          <<Ident("name", name, 0, sp), Punct(":", "", 0, 0),
            Tok("type", "type", type, 0, 1)>>)

\* name(params) ret_type { statements }; retType = <<>> when there is none
FunctionDeclaration(nameKind, name, params, retType, stmts, nl) ==
    Inner("function_declaration", "",
          <<Tok(nameKind, "name", name, nl, 0), Punct("(", "", 0, 0)>>
          \o CommaSeparated(params)
          \o <<Punct(")", "", 0, 0)>>
          \o (IF retType = <<>> THEN <<>> ELSE <<Tok("type", "ret_type", retType, 0, 1)>>)
          \o <<Body("body", stmts, 0)>>)

SourceFile(items) == Inner("source_file", "", items)

(***************************************************************************)
(* The parser: lays the tree out over the text and numbers the nodes in    *)
(* pre-order.  Each table entry is what tree_sitter::Node exposes.         *)
(***************************************************************************)
RECURSIVE BuildNode(_, _, _), BuildChildren(_, _, _)

BuildNode(n, parent, st) ==
    IF n.leaf
    THEN LET row0 == st.row + n.nl
             col0 == IF n.nl > 0 THEN n.sp ELSE st.col + n.sp
             b0 == st.byte + n.nl + n.sp
             len == Len(n.text)
             rec == [kind |-> n.kind, field |-> n.field, parent |-> parent,
                     children |-> <<>>, text |-> n.text,
                     start_byte |-> b0, end_byte |-> b0 + len,
                     start_row |-> row0, start_col |-> col0,
                     end_row |-> row0, end_col |-> col0 + len]
         IN [nodes |-> Append(st.nodes, rec),
             content |-> st.content \o Repeat("\n", n.nl) \o Repeat(" ", n.sp) \o n.text,
             byte |-> b0 + len, row |-> row0, col |-> col0 + len]
    ELSE LET id == Len(st.nodes) + 1
             hole == [kind |-> n.kind, field |-> n.field, parent |-> parent,
                      children |-> <<>>, text |-> <<>>,
                      start_byte |-> st.byte, end_byte |-> st.byte,
                      start_row |-> st.row, start_col |-> st.col,
                      end_row |-> st.row, end_col |-> st.col]
             st1 == [st EXCEPT !.nodes = Append(@, hole)]
             st2 == BuildChildren(n.children, id, st1)
             kids == SetToSeq({i \in (id + 1)..Len(st2.nodes) : st2.nodes[i].parent = id})
             first == st2.nodes[id + 1]
             full == IF kids = <<>> THEN hole
                     ELSE [hole EXCEPT !.children = kids,
                                       !.start_byte = first.start_byte,
                                       !.start_row = first.start_row,
                                       !.start_col = first.start_col,
                                       !.end_byte = st2.byte,
                                       !.end_row = st2.row,
                                       !.end_col = st2.col]
         IN [st2 EXCEPT !.nodes[id] = full]

BuildChildren(cs, parent, st) ==
    IF cs = <<>> THEN st
    ELSE LET st1 == BuildNode(Head(cs), parent, st)
         IN IF st1.byte >= 0 THEN BuildChildren(Tail(cs), parent, st1) ELSE st1

Parse(cst) ==
    BuildNode(cst, 0, [nodes |-> <<>>, content |-> <<>>, byte |-> 0, row |-> 0, col |-> 0])

(***************************************************************************)
(* tree_sitter::Node operations used by the code                           *)
(***************************************************************************)
RootNode == 1

NodeIds(tree) == 1..Len(tree)

\* position of n among its parent's children
ChildIndex(tree, n) ==
    LET cs == tree[tree[n].parent].children
    IN CHOOSE i \in 1..Len(cs) : cs[i] = n

\* 0 stands for None
prev_sibling(tree, n) ==
    IF tree[n].parent = 0 THEN 0
    ELSE LET i == ChildIndex(tree, n)
         IN IF i = 1 THEN 0 ELSE tree[tree[n].parent].children[i - 1]

next_sibling(tree, n) ==
    IF tree[n].parent = 0 THEN 0
    ELSE LET cs == tree[tree[n].parent].children
             i == ChildIndex(tree, n)
         IN IF i = Len(cs) THEN 0 ELSE cs[i + 1]

children_by_field_name(tree, n, field) ==
    SelectSeq(tree[n].children, LAMBDA c : tree[c].field = field)

child_by_field_name(tree, n, field) ==
    LET cs == children_by_field_name(tree, n, field)
    IN IF cs = <<>> THEN 0 ELSE cs[1]

\* the bytes of the content in the node's byte range
node_get_content(content, tree, n) ==
    SubSeq(content, tree[n].start_byte + 1, tree[n].end_byte)

node_range(tree, n) ==
    [start_byte |-> tree[n].start_byte, end_byte |-> tree[n].end_byte,
     start_row |-> tree[n].start_row, start_col |-> tree[n].start_col,
     end_row |-> tree[n].end_row, end_col |-> tree[n].end_col]

RECURSIVE IsAncestorOrSelf(_, _, _)
IsAncestorOrSelf(tree, a, n) ==
    IF n = 0 THEN FALSE
    ELSE IF a = n THEN TRUE
    ELSE IsAncestorOrSelf(tree, a, tree[n].parent)

IsProperAncestor(tree, a, n) == a # n /\ IsAncestorOrSelf(tree, a, n)

PointLt(r1, c1, r2, c2) == r1 < r2 \/ (r1 = r2 /\ c1 < c2)
PointLe(r1, c1, r2, c2) == r1 < r2 \/ (r1 = r2 /\ c1 <= c2)

(***************************************************************************)
(* document.rs: Type, Variable, Function, Document                         *)
(***************************************************************************)
\* enum Type: the variant, and the name an Entity carries
Type(tag, name) == [tag |-> tag, name |-> name]

Type_from_str(s) ==
    CASE s = tF32 -> Type("F32", <<>>)
      [] s = tI32 -> Type("I32", <<>>)
      [] s = tString -> Type("String", <<>>)
      [] s = tBool -> Type("Bool", <<>>)
      [] s = tId -> Type("ID", <<>>)
      [] s = tResource -> Type("Resource", <<>>)
      [] OTHER -> Type("Entity", s)

Type_as_str(t) ==
    CASE t.tag = "ID" -> tId
      [] t.tag = "Bool" -> tBool
      [] t.tag = "String" -> tString
      [] t.tag = "I32" -> tI32
      [] t.tag = "F32" -> tF32
      [] t.tag = "Resource" -> tResource
      [] OTHER -> t.name

\* "{}: {}" of the name and the type's string
Variable_format(var) == var.name \o <<":", " ">> \o Type_as_str(var.type)

\* child_by_field_name("name").unwrap() or ("type").unwrap() panics
unwrap_name_or_type_panics(tree, n) ==
    \/ child_by_field_name(tree, n, "name") = 0
    \/ child_by_field_name(tree, n, "type") = 0

\* Result<Variable, _>: <<var>> for Ok(var), <<>> for Err
parse_variable_declaration(content, tree, n) ==
    IF tree[n].kind # "variable_declaration" /\ tree[n].kind # "function_parameter"
    THEN <<>>
    ELSE LET name == child_by_field_name(tree, n, "name")
             kind == child_by_field_name(tree, n, "type")
         IN <<[name |-> node_get_content(content, tree, name),
               type |-> Type_from_str(node_get_content(content, tree, kind)),
               range |-> node_range(tree, n)]>>

\* str::split(sep): the segments between the separators
Split(s, sep) ==
    LET at == SetToSeq({i \in 1..Len(s) : s[i] = sep})
    IN [k \in 1..(Len(at) + 1) |->
           SubSeq(s, IF k = 1 THEN 1 ELSE at[k - 1] + 1,
                     IF k = Len(at) + 1 THEN Len(s) ELSE at[k] - 1)]

\* str::strip_suffix: <<prefix>> for Some, <<>> for None
strip_suffix(s, suffix) ==
    IF Len(s) >= Len(suffix) /\ SubSeq(s, Len(s) - Len(suffix) + 1, Len(s)) = suffix
    THEN <<SubSeq(s, 1, Len(s) - Len(suffix))>>
    ELSE <<>>

GrugExtension == <<".", "g", "r", "u", "g">>

\* name.split('-').last().unwrap().strip_suffix(".grug"), before the last unwrap
entity_type_of(name) ==
    LET segments == Split(name, "-")
    IN strip_suffix(segments[Len(segments)], GrugExtension)

\* the return type token of a function declaration: Option<Type>
ret_type_of(content, tree, decl) ==
    LET r == child_by_field_name(tree, decl, "ret_type")
    IN IF r = 0 THEN <<>>
       ELSE LET text == node_get_content(content, tree, r)
            IN CASE text = tF32 -> <<Type("F32", <<>>)>>
                 [] text = tI32 -> <<Type("F32", <<>>)>>
                 [] text = tId -> <<Type("ID", <<>>)>>
                 [] text = tString -> <<Type("String", <<>>)>>
                 [] OTHER -> <<>>

\* children_by_field_name("param").find_map(..).into_iter().collect()
params_of(content, tree, decl) ==
    LET ps == children_by_field_name(tree, decl, "param")
    IN IF ps = <<>> THEN <<>>
       ELSE <<[name |-> node_get_content(content, tree, child_by_field_name(tree, ps[1], "name")),
               type |-> Type_from_str(node_get_content(content, tree,
                                          child_by_field_name(tree, ps[1], "type"))),
               range |-> node_range(tree, ps[1])]>>

\* parse_functions!(tree, node_type)
parse_functions(content, tree, node_type) ==
    LET decls == SelectSeq(tree[RootNode].children,
                           LAMBDA c : /\ tree[c].kind = "function_declaration"
                                      /\ tree[child_by_field_name(tree, c, "name")].kind = node_type)
    IN [i \in 1..Len(decls) |->
           [name |-> node_get_content(content, tree, child_by_field_name(tree, decls[i], "name")),
            params |-> params_of(content, tree, decls[i]),
            ret_type |-> ret_type_of(content, tree, decls[i]),
            range |-> node_range(tree, decls[i])]]

global_vars_of(content, tree) ==
    LET decls == SelectSeq(tree[RootNode].children,
                           LAMBDA c : tree[c].kind = "variable_declaration")
    IN Concat([i \in 1..Len(decls) |-> parse_variable_declaration(content, tree, decls[i])])

\* Document::new; panic is set when the constructor panics (nothing is built)
Document_new(cst, name) ==
    LET parsed == Parse(cst)
        content == parsed.content
        tree == parsed.nodes
        entity_type == entity_type_of(name)
        top == tree[RootNode].children
        unwrap_panics ==
            \E i \in 1..Len(top) :
                \/ /\ tree[top[i]].kind = "variable_declaration"
                   /\ unwrap_name_or_type_panics(tree, top[i])
                \/ /\ tree[top[i]].kind = "function_declaration"
                   /\ \/ child_by_field_name(tree, top[i], "name") = 0
                      \/ /\ children_by_field_name(tree, top[i], "param") # <<>>
                         /\ unwrap_name_or_type_panics(tree,
                                children_by_field_name(tree, top[i], "param")[1])
    IN IF unwrap_panics \/ entity_type = <<>>
       THEN [panic |-> TRUE, content |-> <<>>, tree |-> <<>>, global_vars |-> <<>>,
             helpers |-> <<>>, on_functions |-> <<>>, entity_type |-> <<>>]
       ELSE [panic |-> FALSE, content |-> content, tree |-> tree,
             global_vars |-> global_vars_of(content, tree),
             helpers |-> parse_functions(content, tree, "helper_identifier"),
             on_functions |-> parse_functions(content, tree, "on_identifier"),
             entity_type |-> entity_type[1]]

(***************************************************************************)
(* utils.rs: get_spot_info                                                 *)
(***************************************************************************)
\* handle! without its function_parameter arm
handle_declarations_only(doc, n) ==
    IF doc.tree[n].kind = "variable_declaration"
    THEN parse_variable_declaration(doc.content, doc.tree, n) ELSE <<>>

\* the handle! macro: the variables a node adds
handle(doc, n) ==
    (IF doc.tree[n].kind = "variable_declaration"
     THEN parse_variable_declaration(doc.content, doc.tree, n) ELSE <<>>)
    \o
    (IF doc.tree[n].kind = "function_parameter"
     THEN parse_variable_declaration(doc.content, doc.tree, n) ELSE <<>>)

\* every declaration in the subtrees of the preceding siblings as well
RECURSIVE handle_prev_subtrees(_, _)
handle_prev_subtrees(doc, current_node) ==
    LET sibling == prev_sibling(doc.tree, current_node)
        inside == {d \in NodeIds(doc.tree) :
                      /\ IsAncestorOrSelf(doc.tree, sibling, d)
                      /\ doc.tree[d].kind = "variable_declaration"}
        ordered == SetToSeq(inside)
    IN IF sibling = 0 THEN <<>>
       ELSE Concat([i \in 1..Len(ordered) |->
                        parse_variable_declaration(doc.content, doc.tree, ordered[i])])
            \o (IF doc.tree[sibling].kind = "function_parameter"
                THEN parse_variable_declaration(doc.content, doc.tree, sibling) ELSE <<>>)
            \o handle_prev_subtrees(doc, sibling)

\* while let Some(sibling) = current_node.prev_sibling()
RECURSIVE handle_prev_siblings(_, _)
handle_prev_siblings(doc, current_node) ==
    LET sibling == prev_sibling(doc.tree, current_node)
    IN IF sibling = 0 THEN <<>>
       ELSE handle(doc, sibling) \o handle_prev_siblings(doc, sibling)

\* while let Some(next_parent) = parent.parent()
RECURSIVE spot_walk(_, _)
spot_walk(doc, parent) ==
    LET next_parent == doc.tree[parent].parent
    IN IF next_parent = 0 THEN <<>>
       ELSE IF doc.tree[next_parent].kind = "source_file"
       THEN spot_walk(doc, next_parent)
       ELSE handle(doc, parent) \o handle_prev_siblings(doc, parent)
            \o spot_walk(doc, next_parent)

get_spot_info(doc, node) == doc.global_vars \o spot_walk(doc, node)

(***************************************************************************)
(* tree_sitter: descendant_for_point_range, named_descendant_for_point_-   *)
(* range and descendant_for_byte_range, as the library computes them: from *)
(* the root, descend into the first child that ends after the start of the *)
(* range and not before its end, as long as that child starts at or before *)
(* the start of the range; answer the last relevant node passed.           *)
(***************************************************************************)
\* the descent without the test that a child must end after the point
RECURSIVE descend_point_touching(_, _, _, _, _, _)
descend_point_touching(tree, node, last, row, col, named) ==
    LET cands == SelectSeq(tree[node].children,
                    LAMBDA c : ~ PointLt(tree[c].end_row, tree[c].end_col, row, col))
    IN IF cands = <<>> THEN last
       ELSE LET child == cands[1]
            IN IF PointLt(row, col, tree[child].start_row, tree[child].start_col)
               THEN last
               ELSE descend_point_touching(tree, child,
                                  IF named => IsNamed(tree[child].kind) THEN child ELSE last,
                                  row, col, named)

RECURSIVE descend_point(_, _, _, _, _, _)
descend_point(tree, node, last, row, col, named) ==
    LET cands == SelectSeq(tree[node].children,
                    LAMBDA c : ~ PointLe(tree[c].end_row, tree[c].end_col, row, col))
    IN IF cands = <<>> THEN last
       ELSE LET child == cands[1]
            IN IF PointLt(row, col, tree[child].start_row, tree[child].start_col)
               THEN last
               ELSE descend_point(tree, child,
                                  IF named => IsNamed(tree[child].kind) THEN child ELSE last,
                                  row, col, named)

descendant_for_point_range(tree, row, col) ==
    descend_point(tree, RootNode, RootNode, row, col, FALSE)

named_descendant_for_point_range(tree, row, col) ==
    descend_point(tree, RootNode, RootNode, row, col, TRUE)

RECURSIVE descend_byte(_, _, _, _)
descend_byte(tree, node, start, end) ==
    LET cands == SelectSeq(tree[node].children,
                    LAMBDA c : tree[c].end_byte >= end /\ tree[c].end_byte > start)
    IN IF cands = <<>> THEN node
       ELSE IF start < tree[cands[1]].start_byte THEN node
       ELSE descend_byte(tree, cands[1], start, end)

descendant_for_byte_range(tree, start, end) == descend_byte(tree, RootNode, start, end)

(***************************************************************************)
(* utils.rs: get_nearest_node                                              *)
(***************************************************************************)
\* for child in ret.children(): stop at the first child that starts after the point
RECURSIVE nearest_scan(_, _, _, _, _)
nearest_scan(tree, cs, ret, row, col) ==
    IF cs = <<>> THEN ret
    ELSE LET child == Head(cs)
         IN IF \/ (tree[child].start_row = row /\ tree[child].start_col > col)
               \/ tree[child].start_row > row
            THEN ret
            ELSE nearest_scan(tree, Tail(cs), child, row, col)

get_nearest_node(doc, row, col) ==
    LET maybe_nearest == descendant_for_point_range(doc.tree, row, col)
    IN nearest_scan(doc.tree, doc.tree[maybe_nearest].children, maybe_nearest, row, col)

(***************************************************************************)
(* mod_api.rs: the schema store.  A HashMap is a function on its key set.  *)
(***************************************************************************)
EmptyMap == <<>>

MapInsert(map, key, value) == (key :> value) @@ map

\* some iteration order of a HashMap's keys
RECURSIVE MapKeys(_)
MapKeys(S) ==
    IF S = {} THEN <<>>
    ELSE LET k == CHOOSE x \in S : TRUE IN <<k>> \o MapKeys(S \ {k})

default_description ==
    <<"<", "N", "O", " ", "D", "E", "S", "C", "R", "I", "P", "T", "I", "O", "N", ">">>

default_range ==
    [start_byte |-> 0, end_byte |-> 0,
     start_row |-> 0, start_col |-> 0, end_row |-> 0, end_col |-> 0]

ModApi_default == [entities |-> EmptyMap, game_functions |-> EmptyMap]

\* the type name hover prints for a GrugArgument
GrugArgument_type_str(arg) ==
    CASE arg.tag = "String" -> tString
      [] arg.tag = "I32" -> tI32
      [] arg.tag = "F32" -> tF32
      [] arg.tag = "ID" -> tId
      [] arg.tag = "Bool" -> tBool
      [] arg.tag = "Resource" -> tResource
      [] OTHER -> <<"e", "n", "t", "i", "t", "y">>

RECURSIVE JoinArgs(_)
JoinArgs(args) ==
    IF args = <<>> THEN <<>>
    ELSE Head(args).name \o <<":", " ">> \o GrugArgument_type_str(Head(args))
         \o (IF Len(args) > 1 THEN <<",", " ">> ELSE <<>>) \o JoinArgs(Tail(args))

(***************************************************************************)
(* Schema texts.  A JSON text is given as its concrete syntax tree, the    *)
(* view the external parser (tree-sitter-json) gives of it: a string is    *)
(* its opening quote, its content when it has any, and its closing quote.  *)
(***************************************************************************)
JsonString(field, text) ==
    Inner("string", field,
          <<Punct("\"", "", 0, 0)>>
          \o (IF text = <<>> THEN <<>> ELSE <<Tok("string_content", "", text, 0, 0)>>)
          \o <<Punct("\"", "", 0, 0)>>)

JsonNumber(field, text) == Tok("number", field, text, 0, 0)

JsonPair(key, value) ==
    Inner("pair", "", <<JsonString("key", key), Punct(":", "", 0, 0), value>>)

JsonObject(field, pairs) ==
    Inner("object", field,
          <<Punct("{", "", 0, 0)>> \o CommaSeparated(pairs) \o <<Punct("}", "", 0, 0)>>)

JsonDocument(value) == Inner("document", "", <<value>>)

kDescription == <<"d", "e", "s", "c", "r", "i", "p", "t", "i", "o", "n">>
kOnFunctions == <<"o", "n", "_", "f", "u", "n", "c", "t", "i", "o", "n", "s">>
kEntities == <<"e", "n", "t", "i", "t", "i", "e", "s">>
kGameFunctions == <<"g", "a", "m", "e", "_", "f", "u", "n", "c", "t", "i", "o", "n", "s">>

(***************************************************************************)
(* mod_api/parse.rs                                                        *)
(***************************************************************************)
\* Node::child(i): 0 stands for None
node_child(tree, n, i) ==
    IF i < Len(tree[n].children) THEN tree[n].children[i + 1] ELSE 0

\* the characters a JSON string node without escapes stands for
string_value(json, tree, n) == SubSeq(json, tree[n].start_byte + 2, tree[n].end_byte - 1)

\* the pairs of an object node, by key
pairs_with_key(json, tree, obj, key) ==
    SelectSeq(tree[obj].children,
              LAMBDA c : /\ tree[c].kind = "pair"
                         /\ string_value(json, tree, child_by_field_name(tree, c, "key")) = key)

\* serde_json::from_slice::<GrugOnFunction> of the bytes of an object node:
\* <<f>> for Ok(f), <<>> for Err.  description is a string when present and
\* defaults otherwise; other keys are ignored; range is not read.
from_slice_GrugOnFunction(json, tree, obj) ==
    LET ds == pairs_with_key(json, tree, obj, kDescription)
        value == child_by_field_name(tree, ds[1], "value")
    IN IF tree[obj].kind # "object" \/ Len(ds) > 1 THEN <<>>
       ELSE IF ds = <<>>
       THEN <<[description |-> default_description, range |-> default_range]>>
       ELSE IF tree[value].kind # "string" THEN <<>>
       ELSE <<[description |-> string_value(json, tree, value), range |-> default_range]>>

\* serde_json::from_slice::<GrugGameFunction>; the schemas of the checks give
\* game functions a description only
from_slice_GrugGameFunction(json, tree, obj) ==
    LET ds == pairs_with_key(json, tree, obj, kDescription)
        value == child_by_field_name(tree, ds[1], "value")
        Fn(d) == [description |-> d, arguments |-> <<>>, return_type |-> <<>>,
                  range |-> default_range]
    IN IF tree[obj].kind # "object" \/ Len(ds) > 1 THEN <<>>
       ELSE IF ds = <<>> THEN <<Fn(default_description)>>
       ELSE IF tree[value].kind # "string" THEN <<>>
       ELSE <<Fn(string_value(json, tree, value))>>

\* for func_entry in entry.children(..): out grows by one function per pair;
\* a value serde rejects ends the loop
RECURSIVE parse_game_functions_loop(_, _, _, _)
parse_game_functions_loop(json, tree, entries, out) ==
    IF entries = <<>> THEN out
    ELSE LET func_entry == Head(entries)
             rest == Tail(entries)
             key == child_by_field_name(tree, func_entry, "key")
             key1 == node_child(tree, key, 1)
             obj == child_by_field_name(tree, func_entry, "value")
             game_func == from_slice_GrugGameFunction(json, tree, obj)
         IN IF tree[func_entry].kind # "pair"
            THEN parse_game_functions_loop(json, tree, rest, out)
            ELSE IF key = 0 THEN parse_game_functions_loop(json, tree, rest, out)
            ELSE IF tree[key].kind # "string"
            THEN parse_game_functions_loop(json, tree, rest, out)
            ELSE IF key1 = 0 THEN parse_game_functions_loop(json, tree, rest, out)
            ELSE IF obj = 0 THEN parse_game_functions_loop(json, tree, rest, out)
            ELSE IF game_func = <<>> THEN out
            ELSE parse_game_functions_loop(json, tree, rest,
                     MapInsert(out, node_get_content(json, tree, key1),
                               [game_func[1] EXCEPT !.range = node_range(tree, func_entry)]))

parse_game_functions(out, json, tree, entry) ==
    IF tree[entry].kind # "object" THEN out
    ELSE parse_game_functions_loop(json, tree, tree[entry].children, out)

\* the inner loop of parse_entity over the children of "on_functions":
\* the map, and whether an unwrap() has panicked
RECURSIVE parse_on_functions_loop(_, _, _, _)
parse_on_functions_loop(json, tree, entries, on_functions) ==
    IF entries = <<>> THEN [panic |-> FALSE, map |-> on_functions]
    ELSE LET func_entry == Head(entries)
             rest == Tail(entries)
             func_name == child_by_field_name(tree, func_entry, "key")
             name1 == node_child(tree, func_name, 1)
             obj == child_by_field_name(tree, func_entry, "value")
             on_function == from_slice_GrugOnFunction(json, tree, obj)
         IN IF func_name = 0 THEN parse_on_functions_loop(json, tree, rest, on_functions)
            ELSE IF tree[func_name].kind # "string"
            THEN parse_on_functions_loop(json, tree, rest, on_functions)
            ELSE IF name1 = 0 THEN [panic |-> TRUE, map |-> on_functions]
            ELSE IF obj = 0 THEN parse_on_functions_loop(json, tree, rest, on_functions)
            ELSE IF tree[obj].kind # "object"
            THEN parse_on_functions_loop(json, tree, rest, on_functions)
            ELSE IF on_function = <<>>
            THEN parse_on_functions_loop(json, tree, rest, on_functions)
            ELSE parse_on_functions_loop(json, tree, rest,
                     MapInsert(on_functions, node_get_content(json, tree, name1),
                               [on_function[1] EXCEPT !.range = node_range(tree, func_entry)]))

\* the outer loop of parse_entity; acc is [panic, description, on_functions]
RECURSIVE parse_entity_loop(_, _, _, _)
parse_entity_loop(json, tree, cs, acc) ==
    IF cs = <<>> THEN acc
    ELSE LET child == Head(cs)
             rest == Tail(cs)
             key0 == child_by_field_name(tree, child, "key")
             key1 == node_child(tree, key0, 1)
             key == node_get_content(json, tree, key1)
             obj == child_by_field_name(tree, child, "value")
             desc == node_child(tree, obj, 1)
             fns == parse_on_functions_loop(json, tree, tree[obj].children, acc.on_functions)
             panicked == [acc EXCEPT !.panic = TRUE]
         IN IF tree[child].kind # "pair" THEN parse_entity_loop(json, tree, rest, acc)
            ELSE IF key0 = 0 THEN panicked
            ELSE IF key1 = 0 THEN panicked
            ELSE IF obj = 0 THEN panicked
            ELSE IF key = kDescription
            THEN IF tree[obj].kind # "string" THEN parse_entity_loop(json, tree, rest, acc)
                 ELSE IF desc = 0 THEN panicked
                 ELSE parse_entity_loop(json, tree, rest,
                          [acc EXCEPT !.description = node_get_content(json, tree, desc)])
            ELSE IF key = kOnFunctions
            THEN IF tree[obj].kind # "object" THEN parse_entity_loop(json, tree, rest, acc)
                 ELSE IF fns.panic THEN panicked
                 ELSE parse_entity_loop(json, tree, rest,
                          [acc EXCEPT !.on_functions = fns.map])
            ELSE parse_entity_loop(json, tree, rest, acc)

\* Option<GrugEntity>, or a panic
parse_entity(json, tree, node) ==
    LET acc == parse_entity_loop(json, tree, tree[node].children,
                   [panic |-> FALSE, description |-> default_description,
                    on_functions |-> EmptyMap])
    IN IF tree[node].kind # "object" THEN [panic |-> TRUE, entity |-> <<>>]
       ELSE IF acc.panic THEN [panic |-> TRUE, entity |-> <<>>]
       ELSE [panic |-> FALSE,
             entity |-> <<[description |-> acc.description,
                           on_functions |-> acc.on_functions,
                           range |-> node_range(tree, node)]>>]

\* for entity_entry in entry.children(..); out is [panic, map]
RECURSIVE parse_entities_loop(_, _, _, _)
parse_entities_loop(json, tree, entries, out) ==
    IF entries = <<>> THEN out
    ELSE LET entity_entry == Head(entries)
             rest == Tail(entries)
             key == child_by_field_name(tree, entity_entry, "key")
             key1 == node_child(tree, key, 1)
             obj == child_by_field_name(tree, entity_entry, "value")
             parsed == parse_entity(json, tree, obj)
         IN IF tree[entity_entry].kind # "pair"
            THEN parse_entities_loop(json, tree, rest, out)
            ELSE IF key = 0 THEN parse_entities_loop(json, tree, rest, out)
            ELSE IF tree[key].kind # "string" THEN parse_entities_loop(json, tree, rest, out)
            ELSE IF key1 = 0 THEN parse_entities_loop(json, tree, rest, out)
            ELSE IF obj = 0 THEN parse_entities_loop(json, tree, rest, out)
            ELSE IF parsed.panic THEN [out EXCEPT !.panic = TRUE]
            ELSE IF parsed.entity = <<>> THEN parse_entities_loop(json, tree, rest, out)
            ELSE parse_entities_loop(json, tree, rest,
                     [out EXCEPT !.map = MapInsert(@, node_get_content(json, tree, key1),
                                                   parsed.entity[1])])

\* out is the map so far; the result is [panic, map]
parse_entities(out, json, tree, entry) ==
    IF tree[entry].kind # "object" THEN [panic |-> FALSE, map |-> out]
    ELSE parse_entities_loop(json, tree, tree[entry].children,
                             [panic |-> FALSE, map |-> out])

\* for entry in root.children(..); acc is [panic, entities, game_functions]
RECURSIVE from_json_loop(_, _, _, _)
from_json_loop(json, tree, entries, acc) ==
    IF entries = <<>> THEN acc
    ELSE LET entry == Head(entries)
             rest == Tail(entries)
             key0 == child_by_field_name(tree, entry, "key")
             key == node_get_content(json, tree, key0)
             value == child_by_field_name(tree, entry, "value")
             entities == parse_entities(acc.entities, json, tree, value)
         IN IF tree[entry].kind # "pair" THEN from_json_loop(json, tree, rest, acc)
            ELSE IF key0 = 0 THEN from_json_loop(json, tree, rest, acc)
            ELSE IF key = <<"\"">> \o kEntities \o <<"\"">>
            THEN IF value = 0 THEN from_json_loop(json, tree, rest, acc)
                 ELSE IF tree[value].kind # "object" THEN from_json_loop(json, tree, rest, acc)
                 ELSE IF entities.panic THEN [acc EXCEPT !.panic = TRUE]
                 ELSE from_json_loop(json, tree, rest,
                                     [acc EXCEPT !.entities = entities.map])
            ELSE IF key = <<"\"">> \o kGameFunctions \o <<"\"">>
            THEN IF value = 0 THEN from_json_loop(json, tree, rest, acc)
                 ELSE IF tree[value].kind # "object" THEN from_json_loop(json, tree, rest, acc)
                 ELSE from_json_loop(json, tree, rest,
                          [acc EXCEPT !.game_functions =
                               parse_game_functions(acc.game_functions, json, tree, value)])
            ELSE from_json_loop(json, tree, rest, acc)

\* ModApi::from_json of the text of a JSON tree: api is the Option<ModApi>
from_json(cst) ==
    LET parsed == Parse(cst)
        json == parsed.content
        tree == parsed.nodes
        root == node_child(tree, RootNode, 0)
        acc == from_json_loop(json, tree, tree[root].children,
                   [panic |-> FALSE, entities |-> EmptyMap, game_functions |-> EmptyMap])
    IN IF root = 0 THEN [panic |-> FALSE, api |-> <<>>]
       ELSE IF tree[root].kind # "object" THEN [panic |-> FALSE, api |-> <<>>]
       ELSE IF acc.panic THEN [panic |-> TRUE, api |-> <<>>]
       ELSE [panic |-> FALSE,
             api |-> <<[entities |-> acc.entities, game_functions |-> acc.game_functions]>>]

(***************************************************************************)
(* hover.rs                                                                *)
(***************************************************************************)
\* iter().find(|e| e.name == name): the first element of that name, an Option
Find(seq, name) ==
    LET hits == SelectSeq(seq, LAMBDA e : e.name = name)
    IN IF hits = <<>> THEN <<>> ELSE <<hits[1]>>

\* Option<String>
get_hover(api, doc, node) ==
    IF doc.tree[node].kind = "identifier"
    THEN LET name == node_get_content(doc.content, doc.tree, node)
             var == Find(get_spot_info(doc, node), name)
         IN IF var # <<>>
            THEN <<var[1].name \o <<":", " ">> \o Type_as_str(var[1].type)>>
            ELSE IF name \in DOMAIN api.game_functions
            THEN <<name \o <<"(">> \o JoinArgs(api.game_functions[name].arguments) \o <<")">> >>
            ELSE <<>>
    ELSE <<>>

\* the reply of handle_hover for an open document: <<>> is the null result
handle_hover(api, doc, row, col) ==
    LET node == named_descendant_for_point_range(doc.tree, row, col)
        content == get_hover(api, doc, node)
    IN IF content = <<>> THEN <<>>
       ELSE LET var == Find(doc.global_vars, content[1])
                value == IF var # <<>>
                         THEN var[1].name \o <<":", " ">> \o Type_as_str(var[1].type)
                         ELSE content[1]
            IN <<[value |-> value,
                  range |-> [start_row |-> doc.tree[node].start_row,
                             start_col |-> doc.tree[node].start_col,
                             end_row |-> doc.tree[node].end_row,
                             end_col |-> doc.tree[node].end_col]]>>

\* the name every document of the checks is opened under
DocName == <<"t", "i", "r", "e", "d", "-", "b", "o", "x", ".", "g", "r", "u", "g">>

(***************************************************************************)
(* rename.rs                                                               *)
(***************************************************************************)
\* treesitter_range_to_lsp of the node's range, with the replacement text
TextEdit(tree, n, new_text) ==
    [start_line |-> tree[n].start_row, start_character |-> tree[n].start_col,
     end_line |-> tree[n].end_row, end_character |-> tree[n].end_col,
     new_text |-> new_text, panic |-> FALSE]

\* stands for the panic of an unwrap() on a missing child
PanicEdit ==
    [start_line |-> 0, start_character |-> 0, end_line |-> 0, end_character |-> 0,
     new_text |-> <<>>, panic |-> TRUE]

\* rename_type is "Variable" or "Function"
RECURSIVE rename_in_node(_, _, _, _, _)
rename_in_node(doc, node, old_name, new_name, rename_type) ==
    LET tree == doc.tree
        Field(f) == child_by_field_name(tree, node, f)
        In(n) == rename_in_node(doc, n, old_name, new_name, rename_type)
        InAll(ns) == Concat([i \in 1..Len(ns) |-> In(ns[i])])
        NameEdit == IF rename_type = "Function"
                    THEN IF Field("name") = 0 THEN <<PanicEdit>>
                         ELSE IF node_get_content(doc.content, tree, Field("name")) = old_name
                         THEN <<TextEdit(tree, Field("name"), new_name)>>
                         ELSE <<>>
                    ELSE <<>>
        kind == IF node = 0 THEN "" ELSE tree[node].kind
    IN CASE node = 0 -> <<PanicEdit>>
         [] kind \in {"while_statement", "if_statement"} ->
                In(Field("condition")) \o In(Field("body"))
                \o (IF Field("else") # 0 THEN In(Field("else")) ELSE <<>>)
         [] kind \in {"source_file", "body"} -> InAll(tree[node].children)
         [] kind = "variable_declaration" -> In(Field("value"))
         [] kind = "function_call" ->
                NameEdit \o InAll(children_by_field_name(tree, node, "argument"))
         [] kind = "argument" ->
                IF tree[node].children = <<>> THEN <<PanicEdit>>
                ELSE In(tree[node].children[1])
         [] kind = "identifier" ->
                IF rename_type = "Variable"
                   /\ node_get_content(doc.content, tree, node) = old_name
                THEN <<TextEdit(tree, node, new_name)>>
                ELSE <<>>
         [] kind = "function_declaration" -> NameEdit \o In(Field("body"))
         [] kind = "binary_expression" -> In(Field("left")) \o In(Field("right"))
         [] kind = "unary_expression" -> In(Field("operand"))
         [] kind = "return_statement" -> In(Field("value"))
         [] OTHER -> <<>>

\* while let Some(sibling) = node.next_sibling()
RECURSIVE rename_next_siblings(_, _, _, _)
rename_next_siblings(doc, node, old_name, new_name) ==
    LET sibling == next_sibling(doc.tree, node)
    IN IF sibling = 0 THEN <<>>
       ELSE rename_in_node(doc, sibling, old_name, new_name, "Variable")
            \o rename_next_siblings(doc, sibling, old_name, new_name)

\* rename_var without the edit of the declaration's own name token
rename_var_uses_only(doc, node, old_name, new_name) ==
    IF doc.tree[node].kind \notin {"variable_declaration", "function_parameter"}
    THEN <<PanicEdit>>
    ELSE rename_next_siblings(doc, node, old_name, new_name)

rename_var(doc, node, old_name, new_name) ==
    IF doc.tree[node].kind \notin {"variable_declaration", "function_parameter"}
    THEN <<PanicEdit>>
    ELSE (IF child_by_field_name(doc.tree, node, "name") = 0 THEN <<PanicEdit>>
          ELSE <<TextEdit(doc.tree, child_by_field_name(doc.tree, node, "name"), new_name)>>)
         \o rename_next_siblings(doc, node, old_name, new_name)

rename_helper(doc, node, old_name, new_name) ==
    IF doc.tree[node].kind # "source_file" THEN <<PanicEdit>>
    ELSE rename_in_node(doc, node, old_name, new_name, "Function")

\* Server::rename for an open document.  edits is the Option<WorkspaceEdit>
\* of the reply: <<>> for None, <<list>> for Some; target tells which branch
\* answered, and row, col is the start of the renamed declaration's name.
rename(doc, row, col, new_name) ==
    LET tree == doc.tree
        node == descendant_for_point_range(tree, row, col)
        name == node_get_content(doc.content, tree, node)
        spot_info == get_spot_info(doc, node)
        var == Find(spot_info, name)
        func == Find(doc.helpers, name)
        none == [panic |-> FALSE, target |-> "none", old |-> <<>>,
                 row |-> 0, col |-> 0, edits |-> <<>>]
    IN IF tree[node].kind \notin {"identifier", "on_identifier", "helper_identifier"}
       THEN none
       ELSE IF var # <<>>
       THEN LET decl == descendant_for_byte_range(tree, var[1].range.start_byte,
                                                  var[1].range.end_byte)
                edits == rename_var(doc, decl, var[1].name, new_name)
            IN [panic |-> \E i \in 1..Len(edits) : edits[i].panic,
                target |-> "variable", old |-> var[1].name,
                row |-> tree[decl].start_row, col |-> tree[decl].start_col,
                edits |-> <<edits>>]
       ELSE IF func # <<>>
       THEN LET edits == rename_helper(doc, RootNode, func[1].name, new_name)
            IN [panic |-> \E i \in 1..Len(edits) : edits[i].panic,
                target |-> "helper", old |-> func[1].name,
                row |-> tree[node].start_row, col |-> tree[node].start_col,
                edits |-> <<edits>>]
       ELSE none

(***************************************************************************)
(* goto_definition.rs                                                      *)
(***************************************************************************)
\* an is_function_call that takes no node for the name of a call
is_function_call_never(tree, node) == FALSE

is_function_call(tree, node) ==
    IF tree[node].parent = 0 THEN FALSE
    ELSE tree[tree[node].parent].kind = "function_call"

treesitter_range_to_lsp(range) ==
    [start_line |-> range.start_row, start_character |-> range.start_col,
     end_line |-> range.end_row, end_character |-> range.end_col]

\* a LocationLink into the document or into mod_api.json
LocationLink(file, range, selection) ==
    [target_uri |-> file, target_range |-> treesitter_range_to_lsp(range),
     target_selection_range |-> treesitter_range_to_lsp(selection)]

\* a link to a declaration of the document, found again by its byte range
DeclarationLink(doc, range) ==
    LET node == descendant_for_byte_range(doc.tree, range.start_byte, range.end_byte)
    IN LocationLink("document", node_range(doc.tree, node),
                    node_range(doc.tree, child_by_field_name(doc.tree, node, "name")))

\* Option<GotoDefinitionResponse>
get_definition(api, doc, node) ==
    LET kind == doc.tree[node].kind
        text == node_get_content(doc.content, doc.tree, node)
        var == IF is_function_call(doc.tree, node) THEN <<>>
               ELSE Find(get_spot_info(doc, node), text)
        helper == Find(doc.helpers, text)
    IN IF kind = "identifier" /\ var # <<>>
       THEN <<DeclarationLink(doc, var[1].range)>>
       ELSE IF kind = "identifier" /\ text \in DOMAIN api.entities
       THEN <<LocationLink("mod_api.json", api.entities[text].range,
                           api.entities[text].range)>>
       ELSE IF kind = "identifier" /\ text \in DOMAIN api.game_functions
       THEN <<LocationLink("mod_api.json", api.game_functions[text].range,
                           api.game_functions[text].range)>>
       ELSE IF kind = "helper_identifier" /\ helper # <<>>
       THEN <<DeclarationLink(doc, helper[1].range)>>
       ELSE IF /\ kind = "on_identifier"
               /\ doc.entity_type \in DOMAIN api.entities
               /\ text \in DOMAIN api.entities[doc.entity_type].on_functions
       THEN <<LocationLink("mod_api.json",
                           api.entities[doc.entity_type].on_functions[text].range,
                           api.entities[doc.entity_type].on_functions[text].range)>>
       ELSE <<>>

\* the reply of handle_goto_definition for an open document: <<>> is null
handle_goto_definition(api, doc, row, col) ==
    get_definition(api, doc, named_descendant_for_point_range(doc.tree, row, col))

(***************************************************************************)
(* The client: applies the edits of a WorkspaceEdit to its text and sends  *)
(* the new text with textDocument/didChange.                               *)
(***************************************************************************)
\* the byte offset of a position
OffsetOf(content, line, character) ==
    LET lines == Split(content, "\n")
        before == [i \in 1..line |-> Len(lines[i]) + 1]
        Sum[i \in 0..line] == IF i = 0 THEN 0 ELSE Sum[i - 1] + before[i]
    IN Sum[line] + character

\* the edits of one WorkspaceEdit all refer to the text before the change;
\* they are applied from the last one to the first
RECURSIVE ApplySpans(_, _)
ApplySpans(content, spans) ==
    IF spans = {} THEN content
    ELSE LET last == CHOOSE x \in spans : \A y \in spans : y.from <= x.from
             done == SubSeq(content, 1, last.from) \o last.text
                     \o SubSeq(content, last.to + 1, Len(content))
         IN ApplySpans(done, spans \ {last})

ApplyTextEdits(content, edits) ==
    ApplySpans(content,
        {[from |-> OffsetOf(content, edits[i].start_line, edits[i].start_character),
          to |-> OffsetOf(content, edits[i].end_line, edits[i].end_character),
          text |-> edits[i].new_text] : i \in 1..Len(edits)})

(***************************************************************************)
(* text_sync.rs: handle_did_change replaces the document by                *)
(* Document::new of the new text.  The new text differs from the old one   *)
(* in the spelling of names only, so the parser finds the same tokens in   *)
(* the same order, each name reaching as far as its characters go.         *)
(***************************************************************************)
NameKinds == {"identifier", "on_identifier", "helper_identifier"}

IsNameChar(c) ==
    c \notin {" ", "\n", "\t", "(", ")", "{", "}", ",", ":", "=", "+", "-", "<",
              "\"", "#", "."}

Leaves(tree) == SelectSeq([i \in 1..Len(tree) |-> i], LAMBDA n : tree[n].children = <<>>)

\* the white space in front of each leaf: newlines and spaces
Gaps(tree, ls) ==
    [i \in 1..Len(ls) |->
        LET r0 == IF i = 1 THEN 0 ELSE tree[ls[i - 1]].end_row
            c0 == IF i = 1 THEN 0 ELSE tree[ls[i - 1]].end_col
            nl == tree[ls[i]].start_row - r0
        IN [nl |-> nl,
            sp |-> IF nl > 0 THEN tree[ls[i]].start_col
                   ELSE tree[ls[i]].start_col - c0]]

\* the length of the run of name characters of text after offset from
RECURSIVE NameRun(_, _)
NameRun(text, from) ==
    IF from >= Len(text) THEN 0
    ELSE IF IsNameChar(text[from + 1]) THEN 1 + NameRun(text, from + 1)
    ELSE 0

\* the token texts of the new text, leaf by leaf
RECURSIVE Relex(_, _, _, _, _, _, _)
Relex(text, tree, ls, gaps, i, pos, acc) ==
    IF i > Len(ls) THEN acc
    ELSE LET from == pos + gaps[i].nl + gaps[i].sp
             len == IF tree[ls[i]].kind \in NameKinds THEN NameRun(text, from)
                    ELSE Len(tree[ls[i]].text)
             acc1 == [acc EXCEPT ![ls[i]] =
                         [text |-> SubSeq(text, from + 1, from + len),
                          nl |-> gaps[i].nl, sp |-> gaps[i].sp]]
         IN IF acc1[ls[i]].nl >= 0
            THEN Relex(text, tree, ls, gaps, i + 1, from + len, acc1)
            ELSE acc1

RECURSIVE CstOf(_, _, _)
CstOf(tree, n, toks) ==
    IF tree[n].children = <<>>
    THEN Tok(tree[n].kind, tree[n].field, toks[n].text, toks[n].nl, toks[n].sp)
    ELSE Inner(tree[n].kind, tree[n].field,
               [i \in 1..Len(tree[n].children) |-> CstOf(tree, tree[n].children[i], toks)])

\* Document::new(parser, text) for the text a rename of doc's text gives
Reparse(doc, text) ==
    LET ls == Leaves(doc.tree)
        none == [n \in NodeIds(doc.tree) |-> [text |-> <<>>, nl |-> 0, sp |-> 0]]
        toks == Relex(text, doc.tree, ls, Gaps(doc.tree, ls), 1, 0, none)
    IN Document_new(CstOf(doc.tree, RootNode, toks), DocName)

\* the texts of the names of a document
NamesIn(doc) ==
    {node_get_content(doc.content, doc.tree, n) :
        n \in {m \in NodeIds(doc.tree) : doc.tree[m].kind \in NameKinds}}

(***************************************************************************)
(* The documents the checks run over                                       *)
(***************************************************************************)

PrintCall(args, nl, sp) == FunctionCall("", "identifier", nPrint, args, nl, sp)

\* The document of test_var_get, with the names of the two locals and the
\* argument of the print calls left open:
\*   a: i32 = 2
\*   b: f32 = 4.
\*
\*   on_spawn(str: string) {
\*       <local>: f32 = 6
\*       if true {
\*           <inner>: i32 = 3
\*           print(<use>)
\*       }
\*       print(<use>)
\*
\*       d: f32 = <use>
\*   }
ScopeCst(local, inner, use) ==
    LET args == IF use = <<>> THEN <<>> ELSE <<Ident("", use, 0, 0)>>
    IN SourceFile(<<
         VarDecl(nA, tI32, Number("value", <<"2">>, 1), 0, 0),
         VarDecl(nB, tF32, Number("value", <<"4", ".">>, 1), 1, 0),
         FunctionDeclaration("on_identifier", nOnSpawn,
             <<FunctionParameter(nStr, tString, 0)>>, <<>>,
             <<VarDecl(local, tF32, Number("value", <<"6">>, 1), 1, 4),
               IfStatement(Boolean("condition", 1),
                   <<VarDecl(inner, tI32, Number("value", <<"3">>, 1), 1, 8)>>
                   \o (IF use = <<>> THEN <<>> ELSE <<PrintCall(args, 1, 8)>>),
                   1, 4),
               PrintCall(args, 1, 4),
               VarDecl(nD, tF32,
                       IF use = <<>> THEN Number("value", <<"5">>, 1)
                       ELSE Ident("value", use, 0, 1),
                       2, 4)>>,
             2)>>)

\* A document with a helper function, its calls in every kind of statement
\* and expression, a string, a comment and a late global:
\*   f(x: i32) i32 {
\*       return x + 1
\*   }
\*
\*   on_tick(p: i32, q: f32) {
\*       <v>: i32 = f(1)
\*       if <v> < 2 {
\*           g: i32 = 1
\*           f(<v>, g)
\*           while true {
\*               <v> = f(-<v>)
\*           }
\*       } else {
\*           print("s:", (f(<v>)))
\*           # c:
\*       }
\*   }
\*   b: bool = true
HelperCst(v) ==
    LET HelperCall(field, args, nl, sp) ==
            FunctionCall(field, "helper_identifier", nF, args, nl, sp)
    IN SourceFile(<<
         FunctionDeclaration("helper_identifier", nF,
             <<FunctionParameter(nX, tI32, 0)>>, tI32,
             <<ReturnStatement(
                   BinaryExpression("value", Ident("left", nX, 0, 1), "+",
                                    Number("right", <<"1">>, 1)), 1, 4)>>,
             0),
         FunctionDeclaration("on_identifier", nOnTick,
             <<FunctionParameter(<<"p">>, tI32, 0), FunctionParameter(<<"q">>, tF32, 1)>>,
             <<>>,
             <<VarDecl(v, tI32, HelperCall("value", <<Number("", <<"1">>, 0)>>, 0, 1), 1, 4),
               IfElseStatement(
                   BinaryExpression("condition", Ident("left", v, 0, 1), "<",
                                    Number("right", <<"2">>, 1)),
                   <<VarDecl(nG, tI32, Number("value", <<"1">>, 1), 1, 8),
                     HelperCall("", <<Ident("", v, 0, 0), Ident("", nG, 0, 1)>>, 1, 8),
                     WhileStatement(Boolean("condition", 1),
                         <<Assignment(v,
                               HelperCall("value",
                                   <<UnaryExpression("", "-", Ident("operand", v, 0, 0), 0)>>,
                                   0, 1),
                               1, 12)>>,
                         1, 8)>>,
                   <<PrintCall(<<String("", <<"s", ":">>, 0),
                                 ContainedExpression("",
                                     HelperCall("", <<Ident("", v, 0, 0)>>, 0, 0), 1)>>,
                               1, 8),
                     Comment(<<" ", "c", ":">>, 1, 8)>>,
                   1, 4)>>,
             2),
         VarDecl(nB, tBool, Boolean("value", 1), 1, 0)>>)

\* the source of the scenario:
\*   a: i32 = 2 / b: f32 = 4. / on_spawn(str: string) { c: f32 = 6 / print() }
ScenarioCst ==
    SourceFile(<<
        VarDecl(nA, tI32, Number("value", <<"2">>, 1), 0, 0),
        VarDecl(nB, tF32, Number("value", <<"4", ".">>, 1), 1, 0),
        FunctionDeclaration("on_identifier", nOnSpawn,
            <<FunctionParameter(nStr, tString, 0)>>, <<>>,
            <<VarDecl(nC, tF32, Number("value", <<"6">>, 1), 1, 4),
              PrintCall(<<>>, 1, 4)>>,
            2)>>)

Csts ==
    {ScopeCst(l, i, u) : l \in {nC, nA}, i \in {nNo, nC}, u \in {<<>>, nA, nC, nStr}}
    \cup {HelperCst(v) : v \in {nC, nF}}
    \cup {ScenarioCst}

ScenarioDocument == Document_new(ScenarioCst, DocName)

Documents == {Document_new(cst, DocName) : cst \in Csts}

\* the schema stores the checks run over
SampleApi ==
    [entities |->
        (tBox :> [description |-> <<"d">>,
                  on_functions |-> (nOnSpawn :> [description |-> <<"s">>, range |-> default_range])
                                   @@ (nOnTick :> [description |-> <<"t">>, range |-> default_range]),
                  range |-> default_range]),
     game_functions |->
        (nPrint :> [description |-> <<"p">>,
                    arguments |-> <<[tag |-> "String", name |-> <<"s">>]>>,
                    return_type |-> <<>>,
                    range |-> default_range])]

\* the lines of a text, as str::lines gives them
Lines(content) ==
    LET segs == Split(content, "\n")
    IN IF segs[Len(segs)] = <<>> THEN SubSeq(segs, 1, Len(segs) - 1) ELSE segs

\* the cursor positions a client can send for a document
Positions(doc) ==
    LET lines == Lines(doc.content)
    IN UNION {{<<r - 1, c>> : c \in 0..Len(lines[r])} : r \in 1..Len(lines)}

(***************************************************************************)
(* completion.rs                                                           *)
(***************************************************************************)
PRIMITIVE_TYPES ==
    {tResource, tF32, tI32, tId, <<"e", "n", "t", "i", "t", "y">>, tString}

KEYWORD_COMPLETIONS ==
    <<KeywordText("if"), KeywordText("while"), KeywordText("return")>>

Item(label, kind) == [label |-> label, kind |-> kind]

get_completion(api, doc, node) ==
    LET vs == get_spot_info(doc, node)
        gf == MapKeys(DOMAIN api.game_functions)
        at_top == IF doc.tree[node].parent = 0 THEN TRUE
                  ELSE doc.tree[doc.tree[node].parent].kind = "source_file"
        ons == IF at_top /\ doc.entity_type \in DOMAIN api.entities
               THEN SelectSeq(MapKeys(DOMAIN api.entities[doc.entity_type].on_functions),
                              LAMBDA f : \A i \in 1..Len(doc.on_functions) :
                                             doc.on_functions[i].name # f)
               ELSE <<>>
    IN [i \in 1..Len(vs) |-> Item(vs[i].name, "VARIABLE")]
       \o [i \in 1..Len(doc.helpers) |-> Item(doc.helpers[i].name, "VARIABLE")]
       \o [i \in 1..Len(gf) |-> Item(gf[i], "FUNCTION")]
       \o [i \in 1..Len(KEYWORD_COMPLETIONS) |-> Item(KEYWORD_COMPLETIONS[i], "SNIPPET")]
       \o [i \in 1..Len(ons) |-> Item(ons[i], "FUNCTION")]

\* a scan that stops at the first character that is neither blank nor ':'
RECURSIVE is_type_scan_strict(_, _)
is_type_scan_strict(line, can_skip) ==
    IF line = <<>> THEN FALSE
    ELSE IF line[Len(line)] = ":" THEN TRUE
    ELSE IF line[Len(line)] \notin {" ", "\t"} THEN FALSE
    ELSE is_type_scan_strict(SubSeq(line, 1, Len(line) - 1), can_skip)

\* for chr in line.chars().rev(): the is_type flag
RECURSIVE is_type_scan(_, _)
is_type_scan(line, can_skip) ==
    IF line = <<>> THEN FALSE
    ELSE LET chr == line[Len(line)]
             rest == SubSeq(line, 1, Len(line) - 1)
         IN IF chr = ":" THEN TRUE
            ELSE IF chr # " " /\ chr # "\t"
            THEN (IF can_skip THEN FALSE ELSE is_type_scan(rest, can_skip))
            ELSE is_type_scan(rest, TRUE)

\* handle_completion for an open document: replied is FALSE when the handler
\* returns without sending, panic is TRUE when the line slice is out of range
handle_completion(api, doc, row, col) ==
    LET lines == Lines(doc.content)
    IN IF row >= Len(lines)
       THEN [panic |-> FALSE, replied |-> FALSE, node |-> 0, items |-> <<>>]
       ELSE IF col > Len(lines[row + 1])
       THEN [panic |-> TRUE, replied |-> FALSE, node |-> 0, items |-> <<>>]
       ELSE LET line == SubSeq(lines[row + 1], 1, col)
                is_type == is_type_scan(line, FALSE)
                node == get_nearest_node(doc, row, col)
                is_string == doc.tree[node].kind = "string"
                ents == MapKeys(DOMAIN api.entities)
                prims == MapKeys(PRIMITIVE_TYPES)
                completion ==
                    IF is_string THEN <<>>
                    ELSE IF is_type
                    THEN [i \in 1..Len(ents) |-> Item(ents[i], "CLASS")]
                         \o [i \in 1..Len(prims) |-> Item(prims[i], "TYPE_PARAMETER")]
                    ELSE get_completion(api, doc, node)
            IN [panic |-> FALSE, replied |-> TRUE, node |-> node, items |-> completion]

(***************************************************************************)
(* The request loop over one open document.  Requests are handled one at a *)
(* time: response holds the reply of the request being answered until the  *)
(* client has read it.                                                     *)
(***************************************************************************)
Idle == [op |-> "none"]

\* the last rename the client applied: none yet
NoTrail ==
    [n |-> 0, before |-> <<>>, names |-> {}, target |-> "none",
     row |-> 0, col |-> 0, old |-> <<>>, new |-> <<>>]

\* no schema file is watched: no file, no events, no worker thread
NoWatcher ==
    /\ messages_chan = <<>>
    /\ watcher_recv = <<>>
    /\ mod_api_file = <<>>
    /\ worker = [pc |-> "none", log |-> "none"]
    /\ stores = <<>>

\* no document map is kept: the one document is in document; the server
\* has been initialized
NoSync ==
    /\ document_map = <<>>
    /\ file_system = {}
    /\ wrapper = "Active"

Init ==
    /\ document \in Documents
    /\ mod_api \in {ModApi_default, SampleApi}
    /\ response = Idle
    /\ trail = NoTrail
    /\ NoWatcher
    /\ NoSync

\* get_spot_info(&document, &node) for a node of the tree
SpotInfo(node) ==
    /\ response = Idle
    /\ response' = [op |-> "get_spot_info", node |-> node,
                    variables |-> get_spot_info(document, node)]
    /\ UNCHANGED <<document, mod_api, trail, watcher_vars, sync_vars>>

\* get_nearest_node(&document, position)
NearestNode(row, col) ==
    /\ response = Idle
    /\ response' = [op |-> "get_nearest_node", row |-> row, col |-> col,
                    node |-> get_nearest_node(document, row, col)]
    /\ UNCHANGED <<document, mod_api, trail, watcher_vars, sync_vars>>

\* textDocument/hover
Hover(row, col) ==
    /\ response = Idle
    /\ response' = [op |-> "hover", row |-> row, col |-> col,
                    node |-> named_descendant_for_point_range(document.tree, row, col),
                    result |-> handle_hover(mod_api, document, row, col)]
    /\ UNCHANGED <<document, mod_api, trail, watcher_vars, sync_vars>>

\* textDocument/completion
Completion(row, col) ==
    /\ response = Idle
    /\ response' = [op |-> "completion", row |-> row, col |-> col,
                    result |-> handle_completion(mod_api, document, row, col)]
    /\ UNCHANGED <<document, mod_api, trail, watcher_vars, sync_vars>>

\* the client reads the reply; the loop waits for the next message
Receive ==
    /\ response # Idle
    /\ response' = Idle
    /\ UNCHANGED <<document, mod_api, trail, watcher_vars, sync_vars>>

Next ==
    \/ Receive
    \/ response = Idle /\ \E node \in NodeIds(document.tree) : SpotInfo(node)
    \/ response = Idle /\ \E pos \in Positions(document) : NearestNode(pos[1], pos[2])
    \/ response = Idle /\ \E pos \in Positions(document) : Hover(pos[1], pos[2])
    \/ response = Idle /\ \E pos \in Positions(document) : Completion(pos[1], pos[2])

Spec == Init /\ [][Next]_vars

(***************************************************************************)
(* Renames: the server answers textDocument/rename, the client applies the *)
(* edits and sends the new text.  trail remembers the last rename applied. *)
(***************************************************************************)
\* how many renames the client applies in a run
MaxRenames == 1

NewNames == {nX, nStr, nG}

RenameDocuments ==
    {Document_new(cst, DocName) :
        cst \in {ScopeCst(nC, nNo, nStr), ScopeCst(nC, nNo, nC), ScopeCst(nA, nC, nA),
                 HelperCst(nC), HelperCst(nF)}}

\* the cursor rests on the first character of a token
TokenStarts(doc) ==
    {<<doc.tree[n].start_row, doc.tree[n].start_col>> :
        n \in {m \in NodeIds(doc.tree) : doc.tree[m].children = <<>>}}

InitRename ==
    /\ document \in RenameDocuments
    /\ mod_api = ModApi_default
    /\ response = Idle
    /\ trail = NoTrail
    /\ NoWatcher
    /\ NoSync

\* textDocument/rename
Rename(row, col, new_name) ==
    /\ response = Idle
    /\ response' = [op |-> "rename", row |-> row, col |-> col, new_name |-> new_name,
                    result |-> rename(document, row, col, new_name)]
    /\ UNCHANGED <<document, mod_api, trail, watcher_vars, sync_vars>>

\* the client applies the WorkspaceEdit; textDocument/didChange replaces the
\* document
ApplyEdits ==
    /\ response.op = "rename"
    /\ response.result.edits # <<>>
    /\ ~ response.result.panic
    /\ trail.n < MaxRenames
    /\ document' = Reparse(document,
                           ApplyTextEdits(document.content, response.result.edits[1]))
    /\ trail' = [n |-> trail.n + 1, before |-> document.content,
                 names |-> NamesIn(document), target |-> response.result.target,
                 row |-> response.result.row, col |-> response.result.col,
                 old |-> response.result.old, new |-> response.new_name]
    /\ response' = Idle
    /\ UNCHANGED <<mod_api, watcher_vars, sync_vars>>

NextRename ==
    \/ Receive
    \/ ApplyEdits
    \/ response = Idle /\ \E pos \in TokenStarts(document),
                               new_name \in NewNames \cup (IF trail.n > 0 THEN {trail.old} ELSE {}) :
                               Rename(pos[1], pos[2], new_name)

SpecRename == InitRename /\ [][NextRename]_vars

\* the request renames the variable of the last applied rename back
IsRenameBack ==
    /\ response.op = "rename"
    /\ trail.n > 0
    /\ trail.target = "variable"
    /\ response.row = trail.row
    /\ response.col = trail.col
    /\ response.new_name = trail.old

RoundTrips ==
    /\ response.result.edits # <<>>
    /\ ApplyTextEdits(document.content, response.result.edits[1]) = trail.before

\* C6 as stated: applying the edits of a rename of a variable from old to
\* new and then the edits of a rename of the same variable from new back to
\* old reproduces the original text.
C6_AsStated == IsRenameBack => RoundTrips

\* C6 amended: the round trip reproduces the original text when the new
\* name does not occur as a name in the original document.
C6_RoundTripFreshName == (IsRenameBack /\ trail.new \notin trail.names) => RoundTrips

\* a variable with uses was renamed to a fresh name and is renamed back
C6_Witness ==
    /\ IsRenameBack
    /\ trail.new \notin trail.names
    /\ trail.old # trail.new
    /\ response.result.edits # <<>>
    /\ Len(response.result.edits[1]) >= 2
    /\ document.content # trail.before

\* the name tokens of the declaration and of the calls of helper f
HelperNameTokens(doc, f) ==
    {n \in NodeIds(doc.tree) :
        /\ doc.tree[n].kind = "helper_identifier"
        /\ doc.tree[n].field = "name"
        /\ doc.tree[doc.tree[n].parent].kind \in {"function_declaration", "function_call"}
        /\ node_get_content(doc.content, doc.tree, n) = f}

\* C7: a rename with the cursor on the name of helper f yields an edit for
\* the name token of f's declaration and for the callee of every call of f
\* in the document, and no other edit.
C7_HelperRenameCoversCalls ==
    (/\ response.op = "rename"
     /\ \E n \in NodeIds(document.tree) :
            /\ document.tree[n].kind = "helper_identifier"
            /\ document.tree[n].start_row = response.row
            /\ document.tree[n].start_col = response.col
            /\ \E i \in 1..Len(document.helpers) :
                   document.helpers[i].name
                       = node_get_content(document.content, document.tree, n))
    => /\ response.result.edits # <<>>
       /\ Range(response.result.edits[1])
            = {TextEdit(document.tree, n, response.new_name) :
                 n \in HelperNameTokens(document,
                          node_get_content(document.content, document.tree,
                              descendant_for_point_range(document.tree,
                                                         response.row, response.col)))}

\* the declaration a variable rename answered for
RenamedDecl(doc, result) ==
    CHOOSE d \in NodeIds(doc.tree) :
        /\ doc.tree[d].kind \in {"variable_declaration", "function_parameter"}
        /\ doc.tree[d].start_row = result.row
        /\ doc.tree[d].start_col = result.col

\* the identifiers of the given name in the sub-trees of the siblings that
\* follow a declaration, the name tokens of other declarations aside
OccurrencesAfter(doc, decl, name) ==
    {n \in NodeIds(doc.tree) :
        /\ doc.tree[n].kind = "identifier"
        /\ node_get_content(doc.content, doc.tree, n) = name
        /\ ~ (/\ doc.tree[n].field = "name"
              /\ doc.tree[doc.tree[n].parent].kind
                    \in {"variable_declaration", "function_parameter"})
        /\ \E s \in Range(doc.tree[doc.tree[decl].parent].children) :
               /\ doc.tree[s].start_byte >= doc.tree[decl].end_byte
               /\ IsAncestorOrSelf(doc.tree, s, n)}

\* C15: a variable rename returns an edit for the declaration's name token
\* and for every identifier of the old name that lies after the declaration
\* in the sub-trees of its following siblings (bodies, conditions, call
\* arguments, operands, return values, assignments), and no other edit.
C15_VariableRenameCoversUses ==
    (response.op = "rename" /\ response.result.target = "variable")
    => LET decl == RenamedDecl(document, response.result)
           edits == response.result.edits[1]
           StartOf(n) == <<document.tree[n].start_row, document.tree[n].start_col>>
       IN /\ ~ response.result.panic
          /\ {<<edits[i].start_line, edits[i].start_character>> : i \in 1..Len(edits)}
               = {StartOf(child_by_field_name(document.tree, decl, "name"))}
                 \cup {StartOf(n) : n \in OccurrencesAfter(document, decl,
                                                           response.result.old)}

(***************************************************************************)
(* Schema loads: ModApi::from_json applied to the schemas of a bounded     *)
(* family.  A schema is described by its entries; SchemaCst writes it out. *)
(***************************************************************************)
\* how many entries the "entities" object of a schema holds at most
MaxEntities == 2

EntityKeys == <<tBox, tGun, nA, nB, nC, nD>>

GameFunctionKeys == <<nPrint, nF, nG>>

OnFunctionLists ==
    {<<>>,
     <<[name |-> nOnSpawn, description |-> <<"s">>]>>,
     <<[name |-> nOnSpawn, description |-> <<"s">>],
       [name |-> nOnTick, description |-> <<"t">>]>>}

\* description is <<>> when the entry has no "description" pair, <<text>>
\* when it has one
ValidEntities ==
    {[shape |-> "object", description |-> d, on_functions |-> fs] :
        d \in {<<>>, <<<<"d">>>>, <<<<>>>>}, fs \in OnFunctionLists}

\* an entry whose value is a number, and one whose value is an object with a
\* number for its description
InvalidEntities ==
    {[shape |-> "number", description |-> <<>>, on_functions |-> <<>>],
     [shape |-> "misshapen", description |-> <<>>, on_functions |-> <<>>]}

Schemas ==
    {[entities |-> es, game_functions |-> gs] :
        es \in UNION {[1..n -> ValidEntities \cup InvalidEntities] : n \in 0..MaxEntities},
        gs \in {<<>>, <<"object">>, <<"number", "object">>, <<"object", "number">>,
                <<"object", "number", "object">>}}

EntityCst(e) ==
    CASE e.shape = "number" -> JsonNumber("value", <<"5">>)
      [] e.shape = "misshapen" ->
            JsonObject("value", <<JsonPair(kDescription, JsonNumber("value", <<"5">>))>>)
      [] OTHER ->
            JsonObject("value",
                (IF e.description = <<>> THEN <<>>
                 ELSE <<JsonPair(kDescription, JsonString("value", e.description[1]))>>)
                \o <<JsonPair(kOnFunctions,
                        JsonObject("value",
                            [i \in 1..Len(e.on_functions) |->
                                JsonPair(e.on_functions[i].name,
                                    JsonObject("value",
                                        <<JsonPair(kDescription,
                                              JsonString("value",
                                                  e.on_functions[i].description))>>))]))>>)

GameFunctionCst(shape) ==
    IF shape = "number" THEN JsonNumber("value", <<"5">>)
    ELSE JsonObject("value", <<JsonPair(kDescription, JsonString("value", <<"p">>))>>)

SchemaCst(schema) ==
    JsonDocument(
        JsonObject("",
            <<JsonPair(kEntities,
                  JsonObject("value",
                      [i \in 1..Len(schema.entities) |->
                          JsonPair(EntityKeys[i], EntityCst(schema.entities[i]))])),
              JsonPair(kGameFunctions,
                  JsonObject("value",
                      [i \in 1..Len(schema.game_functions) |->
                          JsonPair(GameFunctionKeys[i],
                                   GameFunctionCst(schema.game_functions[i]))]))>>))

\* the server with one open document and no schema
InitLoaded ==
    /\ document \in {ScenarioDocument}
    /\ mod_api = ModApi_default
    /\ response = Idle
    /\ trail = NoTrail
    /\ NoWatcher
    /\ NoSync

\* ModApi::from_json(json)
FromJson(schema) ==
    /\ response = Idle
    /\ response' = [op |-> "from_json", schema |-> schema,
                    result |-> from_json(SchemaCst(schema))]
    /\ UNCHANGED <<document, mod_api, trail, watcher_vars, sync_vars>>

NextSchema ==
    \/ Receive
    \/ response = Idle /\ \E schema \in Schemas : FromJson(schema)

SpecSchema == InitLoaded /\ [][NextSchema]_vars

ValidEntries(schema) ==
    {i \in 1..Len(schema.entities) : schema.entities[i] \in ValidEntities}

\* C5: loading a schema with N valid entity entries and one structurally
\* invalid entry does not panic, does not fail as a whole, and yields a
\* store with exactly the N valid entities.
C5_InvalidEntrySkipped ==
    (/\ response.op = "from_json"
     /\ Cardinality(ValidEntries(response.schema)) = Len(response.schema.entities) - 1)
    => /\ ~ response.result.panic
       /\ response.result.api # <<>>
       /\ DOMAIN response.result.api[1].entities
            = {EntityKeys[i] : i \in ValidEntries(response.schema)}

\* a schema all of whose entities and on-functions carry a description
WellFormed(schema) ==
    \A i \in 1..Len(schema.entities) :
        /\ schema.entities[i] \in ValidEntities
        /\ schema.entities[i].description # <<>>

\* C9: from_json of a well-formed schema returns a store with exactly one
\* entity per pair under "entities", each with that pair's description
\* string, exactly one on-function with its description per pair under its
\* "on_functions", and a non-empty range.
C9_WellFormedSchemaLoads ==
    (response.op = "from_json" /\ WellFormed(response.schema))
    => /\ ~ response.result.panic
       /\ response.result.api # <<>>
       /\ DOMAIN response.result.api[1].entities
            = {EntityKeys[i] : i \in 1..Len(response.schema.entities)}
       /\ \A i \in 1..Len(response.schema.entities) :
              LET e == response.schema.entities[i]
                  got == response.result.api[1].entities[EntityKeys[i]]
              IN /\ got.description = e.description[1]
                 /\ DOMAIN got.on_functions
                      = {e.on_functions[k].name : k \in 1..Len(e.on_functions)}
                 /\ \A k \in 1..Len(e.on_functions) :
                        got.on_functions[e.on_functions[k].name].description
                            = e.on_functions[k].description
                 /\ got.range.end_byte > got.range.start_byte

\* C16: while loading "game_functions", an entry whose value fails to decode
\* is skipped alone: every well-formed entry of the object, before and after
\* the malformed one, is in the resulting store.
C16_MalformedGameFunctionSkippedAlone ==
    (/\ response.op = "from_json"
     /\ \A i \in 1..Len(response.schema.entities) :
            response.schema.entities[i] \in ValidEntities)
    => /\ ~ response.result.panic
       /\ response.result.api # <<>>
       /\ \A i \in 1..Len(response.schema.game_functions) :
              response.schema.game_functions[i] = "object"
              => GameFunctionKeys[i] \in DOMAIN response.result.api[1].game_functions

\* the pair of an object node that has the given key, and its value
PairAt(parsed, obj, key) == pairs_with_key(parsed.content, parsed.nodes, obj, key)[1]
ValueAt(parsed, obj, key) == child_by_field_name(parsed.nodes, PairAt(parsed, obj, key), "value")

\* C17: every entity, game function and on-function of a loaded store
\* carries the source range of its whole key/value pair, starting at the
\* key, not the range of the value alone.
C17_RangesAreOfPairs ==
    (response.op = "from_json" /\ ~ response.result.panic /\ response.result.api # <<>>)
    => LET parsed == Parse(SchemaCst(response.schema))
           api == response.result.api[1]
           root == parsed.nodes[RootNode].children[1]
           entities == ValueAt(parsed, root, kEntities)
           game_functions == ValueAt(parsed, root, kGameFunctions)
       IN /\ \A name \in DOMAIN api.game_functions :
                 api.game_functions[name].range
                     = node_range(parsed.nodes, PairAt(parsed, game_functions, name))
          /\ \A name \in DOMAIN api.entities :
                 /\ api.entities[name].range
                        = node_range(parsed.nodes, PairAt(parsed, entities, name))
                 /\ \A f \in DOMAIN api.entities[name].on_functions :
                        api.entities[name].on_functions[f].range
                            = node_range(parsed.nodes,
                                  PairAt(parsed,
                                      ValueAt(parsed, ValueAt(parsed, entities, name),
                                              kOnFunctions), f))

(***************************************************************************)
(* Document names: Document::new applied to the names of a bounded family. *)
(***************************************************************************)
\* how many '-' separated segments a document name has at most
MaxSegments == 2

RECURSIVE Join(_, _)
Join(segments, sep) ==
    IF Len(segments) = 1 THEN segments[1]
    ELSE segments[1] \o <<sep>> \o Join(Tail(segments), sep)

DocumentNames ==
    {Join(segs, "-") \o ext :
        segs \in UNION {[1..n -> {<<"t", "i", "r", "e", "d">>, tBox, nA}] :
                           n \in 1..MaxSegments},
        ext \in {GrugExtension, <<".", "t", "x", "t">>, <<>>}}

\* how many parameters a function declaration of the signature family has
\* at most
MaxParams == 3

\* a helper and an on-function with n parameters, the helper with the given
\* return type token (<<>>: none)
SignatureCst(n, retType) ==
    LET params == [i \in 1..n |->
                      FunctionParameter(<<nA, nB, nC, nD, nNo>>[i],
                                        <<tI32, tF32, tString, tBool, tId>>[i],
                                        IF i = 1 THEN 0 ELSE 1)]
    IN SourceFile(<<
         FunctionDeclaration("helper_identifier", nF, params, retType,
             <<ReturnStatement(Number("value", <<"1">>, 1), 1, 4)>>, 0),
         FunctionDeclaration("on_identifier", nOnSpawn, params, <<>>,
             <<PrintCall(<<>>, 1, 4)>>, 2)>>)

\* A text with a declaration that lacks its type, between sound ones:
\*   a: i32 = 2
\*   b: = 4.
\*   c: f32 = 6
\*
\*   on_spawn() {
\*       print()
\*   }
\* as the parser's error recovery may give it: with a zero-width token in the
\* place of the type (recovery "missing"), or with no type child at all
\* (recovery "absent")
BrokenCst(recovery) ==
    SourceFile(<<
        VarDecl(nA, tI32, Number("value", <<"2">>, 1), 0, 0),
        Inner("variable_declaration", "",
              <<Ident("name", nB, 1, 0), Punct(":", "", 0, 0)>>
              \o (IF recovery = "missing" THEN <<Tok("type", "type", <<>>, 0, 0)>> ELSE <<>>)
              \o <<Punct("=", "", 0, 1), Number("value", <<"4", ".">>, 1)>>),
        VarDecl(nC, tF32, Number("value", <<"6">>, 1), 1, 0),
        FunctionDeclaration("on_identifier", nOnSpawn, <<>>, <<>>,
                            <<PrintCall(<<>>, 1, 4)>>, 2)>>)

NameCsts ==
    {ScenarioCst, ScopeCst(nC, nNo, <<>>), HelperCst(nC),
     BrokenCst("missing"), BrokenCst("absent")}
    \cup {SignatureCst(n, r) : n \in 0..MaxParams,
                               r \in {<<>>, tI32, tF32, tId, tString, tBool, tResource}}

\* Document::new for an opened text: the document replaces the old one
\* unless the constructor panics
NewDocument(cst, name) ==
    /\ response = Idle
    /\ LET new == Document_new(cst, name)
       IN /\ document' = IF new.panic THEN document ELSE new
          /\ response' = [op |-> "new", name |-> name, panic |-> new.panic,
                          entity_type |-> new.entity_type]
    /\ UNCHANGED <<mod_api, trail, watcher_vars, sync_vars>>

NextName ==
    \/ Receive
    \/ response = Idle /\ \E cst \in NameCsts, name \in DocumentNames : NewDocument(cst, name)

SpecName == InitLoaded /\ [][NextName]_vars

\* the segment after the last '-', without the '.grug' extension
ExpectedEntityType(name) ==
    LET dashes == {i \in 1..Len(name) : name[i] = "-"}
        last == IF dashes = {} THEN 0 ELSE CHOOSE i \in dashes : \A j \in dashes : j <= i
        segment == SubSeq(name, last + 1, Len(name))
        n == Len(segment) - Len(GrugExtension)
    IN IF n >= 0 /\ SubSeq(segment, n + 1, Len(segment)) = GrugExtension
       THEN SubSeq(segment, 1, n)
       ELSE segment

\* C10: for every document name, entity_type is the segment of the name
\* after its last '-' with the '.grug' extension removed.
C10_EntityTypeOfName ==
    response.op = "new"
    => /\ ~ response.panic
       /\ response.entity_type = ExpectedEntityType(response.name)

\* the top-level function declarations of a document, and the Function the
\* document keeps for one: <<>> when it keeps none
FunctionDecls(doc) ==
    {d \in Range(doc.tree[RootNode].children) : doc.tree[d].kind = "function_declaration"}

FunctionOf(doc, d) ==
    SelectSeq(doc.helpers \o doc.on_functions,
              LAMBDA f : f.range = node_range(doc.tree, d))

\* C18: for every top-level function declaration kept in the helper or
\* on-function table, params holds all of the declaration's parameters, one
\* per `param` child, in declaration order.
C18_AllParamsInOrder ==
    (response.op = "new" /\ ~ response.panic)
    => \A d \in FunctionDecls(document) :
           LET params == children_by_field_name(document.tree, d, "param")
           IN \A f \in Range(FunctionOf(document, d)) :
                  /\ Len(f.params) = Len(params)
                  /\ \A i \in 1..Len(params) :
                         /\ f.params[i].range = node_range(document.tree, params[i])
                         /\ f.params[i].name
                              = node_get_content(document.content, document.tree,
                                    child_by_field_name(document.tree, params[i], "name"))

\* the Type a primitive return-type token names
PrimitiveType(text) ==
    CASE text = tI32 -> Type("I32", <<>>)
      [] text = tF32 -> Type("F32", <<>>)
      [] text = tId -> Type("ID", <<>>)
      [] text = tString -> Type("String", <<>>)
      [] text = tBool -> Type("Bool", <<>>)
      [] text = tResource -> Type("Resource", <<>>)

\* C19: a top-level function declaration whose return-type token is one of
\* i32, f32, id, string, bool, resource is recorded with the Type of that
\* name as its ret_type; a declaration without the token has no ret_type.
C19_RetTypeOfToken ==
    (response.op = "new" /\ ~ response.panic)
    => \A d \in FunctionDecls(document) :
           LET r == child_by_field_name(document.tree, d, "ret_type")
               text == node_get_content(document.content, document.tree, r)
           IN \A f \in Range(FunctionOf(document, d)) :
                  IF r = 0 THEN f.ret_type = <<>>
                  ELSE text \in {tI32, tF32, tId, tString, tBool, tResource}
                       => f.ret_type = <<PrimitiveType(text)>>

(***************************************************************************)
(* Vocabulary of the properties: lexical scoping read off the tree,        *)
(* independently of the walk in get_spot_info.                             *)
(***************************************************************************)
Count(seq, x) == Cardinality({i \in 1..Len(seq) : seq[i] = x})

\* the two sequences hold the same elements the same number of times
SameBag(s, t) ==
    /\ Len(s) = Len(t)
    /\ \A i \in 1..Len(s) : Count(s, s[i]) = Count(t, s[i])

\* a bag of values, as a sequence in some order
RECURSIVE SeqOfSet(_)
SeqOfSet(S) ==
    IF S = {} THEN <<>>
    ELSE LET x == CHOOSE y \in S : TRUE IN <<x>> \o SeqOfSet(S \ {x})

\* the Variable a declaration node stands for: its name token, the Type of
\* its type token and its own range
DeclaredVariable(doc, d) ==
    [name |-> node_get_content(doc.content, doc.tree, child_by_field_name(doc.tree, d, "name")),
     type |-> Type_from_str(node_get_content(doc.content, doc.tree,
                                             child_by_field_name(doc.tree, d, "type"))),
     range |-> node_range(doc.tree, d)]

\* "name: type" as written in the declaration
DeclaredText(doc, d) ==
    node_get_content(doc.content, doc.tree, child_by_field_name(doc.tree, d, "name"))
    \o <<":", " ">>
    \o node_get_content(doc.content, doc.tree, child_by_field_name(doc.tree, d, "type"))

GlobalDecls(doc) ==
    {d \in NodeIds(doc.tree) : doc.tree[d].kind = "variable_declaration"
                               /\ doc.tree[d].parent = RootNode}

\* local declarations that lie before n in a block enclosing n
PrecedingLocalDecls(doc, n) ==
    {d \in NodeIds(doc.tree) :
        /\ doc.tree[d].kind = "variable_declaration"
        /\ doc.tree[doc.tree[d].parent].kind = "body"
        /\ IsProperAncestor(doc.tree, doc.tree[d].parent, n)
        /\ doc.tree[d].end_byte <= doc.tree[n].start_byte}

\* the parameters of the function declaration n lies in
EnclosingParams(doc, n) ==
    {d \in NodeIds(doc.tree) :
        /\ doc.tree[d].kind = "function_parameter"
        /\ IsProperAncestor(doc.tree, doc.tree[d].parent, n)}

\* a statement: a named child of a block that is not a comment
IsStatement(doc, n) ==
    /\ doc.tree[n].parent # 0
    /\ doc.tree[doc.tree[n].parent].kind = "body"
    /\ IsNamed(doc.tree[n].kind)
    /\ doc.tree[n].kind # "comment"

VariablesOf(doc, decls) == [i \in 1..Len(SeqOfSet(decls)) |-> DeclaredVariable(doc, SeqOfSet(decls)[i])]

\* the document of test_var_get
TestDocument == Document_new(ScopeCst(nC, nNo, <<>>), DocName)

\* a print() call standing as a statement of a function's body
IsPrintStatement(doc, n) ==
    /\ doc.tree[n].kind = "function_call"
    /\ node_get_content(doc.content, doc.tree, child_by_field_name(doc.tree, n, "name")) = nPrint
    /\ doc.tree[doc.tree[n].parent].kind = "body"
    /\ doc.tree[doc.tree[doc.tree[n].parent].parent].kind = "function_declaration"

ScenarioVariables ==
    <<nA \o <<":", " ">> \o tI32, nB \o <<":", " ">> \o tF32,
      nC \o <<":", " ">> \o tF32, nStr \o <<":", " ">> \o tString>>

ScenarioHolds ==
    (/\ response.op = "get_spot_info"
     /\ document \in {ScenarioDocument, TestDocument}
     /\ IsPrintStatement(document, response.node))
    => SameBag([i \in 1..Len(response.variables) |-> Variable_format(response.variables[i])],
               ScenarioVariables)

C2_GlobalsInNoSiblingBlock ==
    response.op = "get_spot_info" =>
        /\ \A g \in GlobalDecls(document) :
               document.tree[g].end_byte <= document.tree[response.node].start_byte
               => \E i \in 1..Len(response.variables) :
                      response.variables[i] = DeclaredVariable(document, g)
        /\ \A i \in 1..Len(response.variables) :
               \A d \in NodeIds(document.tree) :
                   (/\ document.tree[d].kind \in {"variable_declaration", "function_parameter"}
                    /\ node_range(document.tree, d) = response.variables[i].range)
                   => \/ document.tree[d].parent = RootNode
                      \/ IsProperAncestor(document.tree, document.tree[d].parent, response.node)

\* a query after a block that declares a variable, in a document with globals
C2_Witness ==
    /\ response.op = "get_spot_info"
    /\ \E g \in GlobalDecls(document) :
           document.tree[g].end_byte <= document.tree[response.node].start_byte
    /\ \E d \in NodeIds(document.tree) :
           /\ document.tree[d].kind = "variable_declaration"
           /\ document.tree[d].parent # RootNode
           /\ document.tree[d].end_byte <= document.tree[response.node].start_byte
           /\ ~ IsProperAncestor(document.tree, document.tree[d].parent, response.node)

\* the nodes of a set in source order
RECURSIVE InSourceOrder(_, _)
InSourceOrder(tree, S) ==
    IF S = {} THEN <<>>
    ELSE LET d == CHOOSE x \in S : \A y \in S : tree[x].start_byte <= tree[y].start_byte
         IN <<d>> \o InSourceOrder(tree, S \ {d})

\* the declarations of one level: the level's own node p and its preceding
\* siblings
LevelDecls(doc, p) ==
    {d \in Range(doc.tree[doc.tree[p].parent].children) :
        /\ doc.tree[d].kind \in {"variable_declaration", "function_parameter"}
        /\ doc.tree[d].start_byte <= doc.tree[p].start_byte}

\* the levels below the top level, from the one of p outward, each in
\* source order
RECURSIVE LevelsOutward(_, _)
LevelsOutward(doc, p) ==
    IF doc.tree[p].parent = 0 \/ doc.tree[p].parent = RootNode THEN <<>>
    ELSE InSourceOrder(doc.tree, LevelDecls(doc, p)) \o LevelsOutward(doc, doc.tree[p].parent)

\* C20: the list of get_spot_info is ordered: the globals in document order
\* first, then the local declarations level by level from the innermost
\* enclosing level outward, and within one level the preceding siblings
\* before the level's own node, in source order.
C20_SourceOrder ==
    response.op = "get_spot_info"
    => [i \in 1..Len(response.variables) |-> response.variables[i].range]
         = LET order == InSourceOrder(document.tree, GlobalDecls(document))
                        \o LevelsOutward(document, response.node)
           IN [i \in 1..Len(order) |-> node_range(document.tree, order[i])]

\* a declaration with its name and its type both there and not empty
HasNameAndType(doc, d) ==
    /\ child_by_field_name(doc.tree, d, "name") # 0
    /\ child_by_field_name(doc.tree, d, "type") # 0
    /\ node_get_content(doc.content, doc.tree, child_by_field_name(doc.tree, d, "name")) # <<>>
    /\ node_get_content(doc.content, doc.tree, child_by_field_name(doc.tree, d, "type")) # <<>>

\* C26: Document::new does not abort because of one declaration: under a
\* name it can take the entity type from, the document is built, its global
\* variables are the top-level declarations that have their name and type,
\* in order, the one that lacks either left out, and every top-level
\* function is in its table.
C26_BrokenDeclarationLeftOut ==
    (response.op = "new" /\ entity_type_of(response.name) # <<>>)
    => /\ ~ response.panic
       /\ LET sound == InSourceOrder(document.tree,
                           {d \in GlobalDecls(document) : HasNameAndType(document, d)})
          IN [i \in 1..Len(document.global_vars) |-> document.global_vars[i].range]
               = [i \in 1..Len(sound) |-> node_range(document.tree, sound[i])]
       /\ \A d \in FunctionDecls(document) : FunctionOf(document, d) # <<>>

\* C21: every variable get_spot_info returns that is not a global comes from
\* a declaration or parameter that ends before the query node starts and
\* stands in a block (or parameter list) enclosing the node: never from a
\* declaration that contains the node or follows it.
C21_OnlyEarlierDeclarations ==
    response.op = "get_spot_info" =>
        \A i \in 1..Len(response.variables) :
            \A d \in NodeIds(document.tree) :
                (/\ document.tree[d].kind \in {"variable_declaration", "function_parameter"}
                 /\ node_range(document.tree, d) = response.variables[i].range
                 /\ document.tree[d].parent # RootNode)
                => /\ document.tree[d].end_byte <= document.tree[response.node].start_byte
                   /\ IsProperAncestor(document.tree, document.tree[d].parent, response.node)

\* identifiers that use a variable: not the name token of a declaration and
\* not the callee of a call
IsVariableUse(doc, n) ==
    /\ doc.tree[n].kind = "identifier"
    /\ ~ (doc.tree[n].field = "name"
          /\ doc.tree[doc.tree[n].parent].kind
               \in {"variable_declaration", "function_parameter", "function_call"})

\* the declarations of the name of identifier n in whose forward-visible
\* region n lies
VisibleDecls(doc, n) ==
    {d \in {g \in GlobalDecls(doc) : doc.tree[g].end_byte <= doc.tree[n].start_byte}
           \cup PrecedingLocalDecls(doc, n) \cup EnclosingParams(doc, n) :
        node_get_content(doc.content, doc.tree, child_by_field_name(doc.tree, d, "name"))
            = node_get_content(doc.content, doc.tree, n)}

RECURSIVE Depth(_, _)
Depth(tree, n) == IF tree[n].parent = 0 THEN 0 ELSE 1 + Depth(tree, tree[n].parent)

\* the declaration an identifier refers to: the innermost visible one, the
\* latest of a block
Innermost(doc, ds) ==
    CHOOSE d \in ds : \A e \in ds :
        \/ Depth(doc.tree, e) < Depth(doc.tree, d)
        \/ (Depth(doc.tree, e) = Depth(doc.tree, d)
            /\ doc.tree[e].start_byte <= doc.tree[d].start_byte)

\* the identifier a position lies in
IdentifiersAt(doc, row, col) ==
    {n \in NodeIds(doc.tree) :
        /\ IsVariableUse(doc, n)
        /\ doc.tree[n].start_row = row /\ doc.tree[n].end_row = row
        /\ doc.tree[n].start_col <= col /\ col < doc.tree[n].end_col}

\* C3: hover at a position inside an identifier that names a variable in
\* whose forward-visible region it lies reports exactly "name: type" as
\* written in that variable's own declaration.
C3_HoverDeclaredType ==
    response.op = "hover" =>
        \A n \in IdentifiersAt(document, response.row, response.col) :
            VisibleDecls(document, n) # {}
            => /\ response.result # <<>>
               /\ response.result[1].value
                    = DeclaredText(document, Innermost(document, VisibleDecls(document, n)))

\* C4: get_nearest_node at the start point of a named node returns that
\* node or a descendant of it starting at the same point; never a proper
\* ancestor of it nor a node outside it.
C4_NearestAtStartPoint ==
    response.op = "get_nearest_node" =>
        \A n \in NodeIds(document.tree) :
            (/\ IsNamed(document.tree[n].kind)
             /\ document.tree[n].start_row = response.row
             /\ document.tree[n].start_col = response.col)
            => /\ IsAncestorOrSelf(document.tree, n, response.node)
               /\ document.tree[response.node].start_row = response.row
               /\ document.tree[response.node].start_col = response.col

\* the point is the start of a named node that has children and follows
\* another token without a gap
C4_Witness ==
    /\ response.op = "get_nearest_node"
    /\ \E n \in NodeIds(document.tree) :
           /\ IsNamed(document.tree[n].kind)
           /\ document.tree[n].children # <<>>
           /\ document.tree[n].start_row = response.row
           /\ document.tree[n].start_col = response.col
           /\ IsProperAncestor(document.tree, n, response.node)
           /\ \E m \in NodeIds(document.tree) :
                  /\ document.tree[m].end_row = response.row
                  /\ document.tree[m].end_col = response.col
                  /\ document.tree[m].children = <<>>

\* C8: a completion request whose located node is of kind "string" or
\* "comment" returns an empty completion list.
C8_NoCompletionInStringOrComment ==
    (/\ response.op = "completion"
     /\ response.result.replied
     /\ document.tree[response.result.node].kind \in {"string", "comment"})
    => response.result.items = <<>>

\* the text of the cursor's line before the cursor
LineBefore(doc, row, col) == SubSeq(Lines(doc.content)[row + 1], 1, col)

\* the text ends with a ':' followed by blanks only, then by word more
\* characters that are neither blanks nor ':'
EndsAfterColon(text, word) ==
    /\ word <= Len(text)
    /\ \A j \in (Len(text) - word + 1)..Len(text) : text[j] \notin {" ", "\t", ":"}
    /\ \E k \in 1..(Len(text) - word) :
           /\ text[k] = ":"
           /\ \A j \in (k + 1)..(Len(text) - word) : text[j] \in {" ", "\t"}

\* the type-position list: the schema's entity names and the primitive type
\* names, nothing else
IsTypeList(api, items) ==
    /\ {items[i].label : i \in 1..Len(items)} = DOMAIN api.entities \cup PRIMITIVE_TYPES
    /\ \A i \in 1..Len(items) : items[i].kind \in {"CLASS", "TYPE_PARAMETER"}

\* the general list: variables, functions and keyword snippets
IsGeneralList(items) ==
    /\ \A i \in 1..Len(items) : items[i].kind \in {"VARIABLE", "FUNCTION", "SNIPPET"}
    /\ \E i \in 1..Len(items) : items[i].kind = "SNIPPET"

\* C24 as stated: when the located node is not a string, completion returns
\* the type-position list if the line before the cursor ends with a ':'
\* followed by blanks only, and the general list in every other case.
C24_AsStated ==
    (/\ response.op = "completion"
     /\ response.result.replied
     /\ document.tree[response.result.node].kind # "string")
    => IF EndsAfterColon(LineBefore(document, response.row, response.col), 0)
       THEN IsTypeList(mod_api, response.result.items)
       ELSE IsGeneralList(response.result.items)

\* C24 amended: the type-position list is returned if the line before the
\* cursor ends with a ':', blanks, and then any number of characters that
\* are neither blanks nor ':' (the word being typed); the general list in
\* every other case.
C24_TypeListAfterColon ==
    (/\ response.op = "completion"
     /\ response.result.replied
     /\ document.tree[response.result.node].kind # "string")
    => IF \E word \in 0..response.col :
              EndsAfterColon(LineBefore(document, response.row, response.col), word)
       THEN IsTypeList(mod_api, response.result.items)
       ELSE IsGeneralList(response.result.items)

\* a completion right after ": " answered with the entities and the types
C24_Witness ==
    /\ response.op = "completion"
    /\ response.result.replied
    /\ document.tree[response.result.node].kind # "string"
    /\ response.col >= 2
    /\ LineBefore(document, response.row, response.col)[response.col] = " "
    /\ LineBefore(document, response.row, response.col)[response.col - 1] = ":"
    /\ DOMAIN mod_api.entities # {}
    /\ \E i \in 1..Len(response.result.items) : response.result.items[i].kind = "CLASS"

(***************************************************************************)
(* Requests by URI.  One document is open: handle_did_open has created its *)
(* file and the directories above it in file_system and entered it in      *)
(* document_map.  A request names the open document, its directory, or a   *)
(* document that was never opened.                                         *)
(***************************************************************************)
OpenPath == "/mods/tired-box.grug"
DirPath == "/mods"
ClosedPath == "/mods/other.grug"

\* self.file_system.exists(path).unwrap_or(false)
file_system_exists(path) == path \in {"/", DirPath, OpenPath}

\* self.document_map.get(path): Option
document_map_get(doc, path) == IF path = OpenPath THEN <<doc>> ELSE <<>>

\* what the client gets: a result (<<>> is null), an error response, or
\* nothing because the server has panicked
Reply(outcome, result) == [outcome |-> outcome, result |-> result]

Server_handle_hover(api, doc, path, row, col) ==
    IF ~ file_system_exists(path) THEN Reply("ok", <<>>)
    ELSE IF document_map_get(doc, path) = <<>> THEN Reply("panic", <<>>)
    ELSE Reply("ok", handle_hover(api, doc, row, col))

Server_handle_goto_definition(api, doc, path, row, col) ==
    IF ~ file_system_exists(path) THEN Reply("error", <<>>)
    ELSE IF document_map_get(doc, path) = <<>> THEN Reply("panic", <<>>)
    ELSE Reply("ok", handle_goto_definition(api, doc, row, col))

Server_handle_completion(api, doc, path, row, col) ==
    IF document_map_get(doc, path) = <<>> THEN Reply("panic", <<>>)
    ELSE LET completion == handle_completion(api, doc, row, col)
         IN IF completion.panic THEN Reply("panic", <<>>)
            ELSE IF ~ completion.replied THEN Reply("none", <<>>)
            ELSE Reply("ok", completion.items)

Server_rename(doc, path, row, col, new_name) ==
    IF ~ file_system_exists(path) THEN Reply("error", <<>>)
    ELSE IF document_map_get(doc, path) = <<>> THEN Reply("panic", <<>>)
    ELSE LET renamed == rename(doc, row, col, new_name)
         IN IF renamed.panic THEN Reply("panic", <<>>)
            ELSE IF renamed.edits = <<>> THEN Reply("ok", <<>>)
            ELSE Reply("ok", <<renamed>>)

Paths == {OpenPath, DirPath, ClosedPath}

\* a schema as ModApi::from_json loads it, with the ranges of its entries
LoadedApi ==
    from_json(SchemaCst([entities |-> <<[shape |-> "object", description |-> <<<<"d">>>>,
                                        on_functions |-> <<[name |-> nOnSpawn,
                                                            description |-> <<"s">>]>>],
                                       [shape |-> "object", description |-> <<>>,
                                        on_functions |-> <<>>]>>,
                         game_functions |-> <<"object">>])).api[1]

\* the open document: shadowing variables, a variable named as an entity, one
\* named as a game function, names of an entity and of nothing, helpers
InitServer ==
    /\ document \in {Document_new(cst, DocName) :
                        cst \in {ScopeCst(nA, nNo, nA), ScopeCst(nC, nC, nC), HelperCst(nC),
                                 ScopeCst(nC, nNo, tBox), ScopeCst(tBox, nNo, tBox),
                                 ScopeCst(nPrint, nNo, nX)}}
    /\ mod_api \in {SampleApi, LoadedApi}
    /\ response = Idle
    /\ trail = NoTrail
    /\ NoWatcher
    /\ NoSync

\* a request for a path: textDocument/hover, /definition, /completion, /rename
Request(op, path, row, col) ==
    /\ response = Idle
    /\ response' =
           [op |-> op, path |-> path, row |-> row, col |-> col,
            reply |-> CASE op = "hover" ->
                               Server_handle_hover(mod_api, document, path, row, col)
                        [] op = "goto_definition" ->
                               Server_handle_goto_definition(mod_api, document, path, row, col)
                        [] op = "completion" ->
                               Server_handle_completion(mod_api, document, path, row, col)
                        [] op = "rename" ->
                               Server_rename(document, path, row, col, nX)]
    /\ UNCHANGED <<document, mod_api, trail, watcher_vars, sync_vars>>

\* the client reads the reply; a server that has panicked is gone
NextMessage ==
    /\ response # Idle
    /\ response.reply.outcome # "panic"
    /\ response' = Idle
    /\ UNCHANGED <<document, mod_api, trail, watcher_vars, sync_vars>>

NextServer ==
    \/ NextMessage
    \/ response = Idle /\ \E op \in {"hover", "goto_definition", "completion", "rename"},
                               path \in Paths, pos \in TokenStarts(document) :
                               Request(op, path, pos[1], pos[2])

SpecServer == InitServer /\ [][NextServer]_vars

\* C13: a hover, completion, goto-definition or rename request for a URI
\* for which no document is open is answered with a null or empty result:
\* the server neither panics nor answers with an error response.
C13_UnopenedUriGetsNull ==
    (response # Idle /\ response.path # OpenPath)
    => /\ response.reply.outcome = "ok"
       /\ response.reply.result = <<>>

\* C14: where two or more declarations of an identifier's name are visible,
\* hover, goto-definition and rename all resolve the identifier to the
\* innermost of them.
C14_InnermostEverywhere ==
    (response # Idle /\ response.path = OpenPath)
    => \A n \in IdentifiersAt(document, response.row, response.col) :
           Cardinality(VisibleDecls(document, n)) >= 2
           => LET d == Innermost(document, VisibleDecls(document, n))
                  reply == response.reply
              IN /\ reply.outcome = "ok"
                 /\ reply.result # <<>>
                 /\ response.op = "hover"
                       => reply.result[1].value = DeclaredText(document, d)
                 /\ response.op = "goto_definition"
                       => reply.result[1].target_range
                            = treesitter_range_to_lsp(node_range(document.tree, d))
                 /\ response.op = "rename"
                       => /\ reply.result[1].row = document.tree[d].start_row
                          /\ reply.result[1].col = document.tree[d].start_col

\* the plain identifier that starts at a position
PlainIdentifierAt(doc, row, col) ==
    {n \in NodeIds(doc.tree) :
        /\ doc.tree[n].kind = "identifier"
        /\ doc.tree[n].start_row = row
        /\ doc.tree[n].start_col = col}

\* the reply goto-definition owes for the plain identifier n, when the
\* variables in scope are looked at (scoped) or passed over
OwedDefinition(api, doc, n, scoped, reply) ==
    LET text == node_get_content(doc.content, doc.tree, n)
        in_scope == {v \in Range(get_spot_info(doc, n)) : v.name = text}
    IN /\ reply.outcome = "ok"
       /\ IF scoped /\ in_scope # {}
          THEN /\ reply.result # <<>>
               /\ reply.result[1].target_uri = "document"
               /\ \E v \in in_scope :
                      reply.result[1].target_range = treesitter_range_to_lsp(v.range)
          ELSE IF text \in DOMAIN api.entities
          THEN reply.result = <<LocationLink("mod_api.json", api.entities[text].range,
                                             api.entities[text].range)>>
          ELSE IF text \in DOMAIN api.game_functions
          THEN reply.result = <<LocationLink("mod_api.json", api.game_functions[text].range,
                                             api.game_functions[text].range)>>
          ELSE reply.result = <<>>

\* C23 as stated: goto-definition on a plain identifier answers with the
\* declaration of a variable in scope of that name if there is one, else
\* with the schema entity of that name, else with the schema game function
\* of that name, both at the range the store holds, else with null; never
\* with an error.
C23_AsStated ==
    (response # Idle /\ response.op = "goto_definition" /\ response.path = OpenPath)
    => \A n \in PlainIdentifierAt(document, response.row, response.col) :
           OwedDefinition(mod_api, document, n, TRUE, response.reply)

\* C23 amended: as C23, where the name of a call is never resolved to a
\* variable: for it the answer is the entity, else the game function, else
\* null.
C23_DefinitionOrder ==
    (response # Idle /\ response.op = "goto_definition" /\ response.path = OpenPath)
    => \A n \in PlainIdentifierAt(document, response.row, response.col) :
           OwedDefinition(mod_api, document, n,
                          ~ (document.tree[n].field = "name"
                             /\ document.tree[document.tree[n].parent].kind = "function_call"),
                          response.reply)

\* goto-definition on an identifier that names a variable in scope and an
\* entity of a schema loaded with its ranges
C23_Witness ==
    /\ response # Idle
    /\ response.op = "goto_definition"
    /\ response.path = OpenPath
    /\ mod_api = LoadedApi
    /\ \E n \in PlainIdentifierAt(document, response.row, response.col) :
           /\ node_get_content(document.content, document.tree, n) \in DOMAIN mod_api.entities
           /\ document.tree[document.tree[n].parent].kind = "argument"
           /\ response.reply.result # <<>>
           /\ response.reply.result[1].target_uri = "document"

(***************************************************************************)
(* helper.rs: the schema watcher.  A worker thread waits for events on the *)
(* file mod_api.json, reloads the file and sends the new store to the      *)
(* server; the server takes at most one pending store at the start of each *)
(* message it handles.                                                     *)
(***************************************************************************)
\* how many file events wait in watcher_recv at most
MaxEvents == 1

\* how many stores wait in messages_chan at most
MaxPending == 2

\* serde_json::from_slice::<type> of the bytes of a value node: <<v>> for
\* Ok(v), <<>> for Err.  A struct takes its known keys, each at most once,
\* with the defaults the type declares; a map takes every pair; range is
\* skipped and defaults.
RECURSIVE serde_from_slice(_, _, _, _)
serde_from_slice(json, tree, node, type) ==
    LET pairs == SelectSeq(tree[node].children, LAMBDA c : tree[c].kind = "pair")
        Key(p) == string_value(json, tree, child_by_field_name(tree, p, "key"))
        Value(p) == child_by_field_name(tree, p, "value")
        Field(key) == pairs_with_key(json, tree, node, key)
        Entries(t) == [i \in 1..Len(pairs) |-> serde_from_slice(json, tree, Value(pairs[i]), t)]
        Last(key) == CHOOSE i \in 1..Len(pairs) :
                         /\ Key(pairs[i]) = key
                         /\ \A j \in 1..Len(pairs) : Key(pairs[j]) = key => j <= i
        Map(t) == LET entries == Entries(t)
                  IN IF \E i \in 1..Len(pairs) : entries[i] = <<>> THEN <<>>
                     ELSE <<[key \in {Key(pairs[i]) : i \in 1..Len(pairs)} |->
                                entries[Last(key)][1]]>>
        description == IF Field(kDescription) = <<>> THEN <<default_description>>
                       ELSE IF tree[Value(Field(kDescription)[1])].kind # "string" THEN <<>>
                       ELSE <<string_value(json, tree, Value(Field(kDescription)[1]))>>
        on_functions == IF Field(kOnFunctions) = <<>> THEN <<EmptyMap>>
                        ELSE serde_from_slice(json, tree, Value(Field(kOnFunctions)[1]),
                                              "HashMap<GrugOnFunction>")
        entities == IF Field(kEntities) = <<>> THEN <<>>
                    ELSE serde_from_slice(json, tree, Value(Field(kEntities)[1]),
                                          "HashMap<GrugEntity>")
        game_functions == IF Field(kGameFunctions) = <<>> THEN <<>>
                          ELSE serde_from_slice(json, tree, Value(Field(kGameFunctions)[1]),
                                                "HashMap<GrugGameFunction>")
    IN CASE tree[node].kind # "object" -> <<>>
         [] type = "GrugOnFunction" -> from_slice_GrugOnFunction(json, tree, node)
         [] type = "GrugGameFunction" -> from_slice_GrugGameFunction(json, tree, node)
         [] type = "HashMap<GrugOnFunction>" -> Map("GrugOnFunction")
         [] type = "HashMap<GrugGameFunction>" -> Map("GrugGameFunction")
         [] type = "HashMap<GrugEntity>" -> Map("GrugEntity")
         [] type = "GrugEntity" ->
                IF \/ Len(Field(kDescription)) > 1 \/ Len(Field(kOnFunctions)) > 1
                   \/ description = <<>> \/ on_functions = <<>>
                THEN <<>>
                ELSE <<[description |-> description[1], on_functions |-> on_functions[1],
                        range |-> default_range]>>
         [] type = "ModApi" ->
                IF \/ Len(Field(kEntities)) > 1 \/ Len(Field(kGameFunctions)) > 1
                   \/ entities = <<>> \/ game_functions = <<>>
                THEN <<>>
                ELSE <<[entities |-> entities[1], game_functions |-> game_functions[1]]>>

\* a text that is not JSON
NotJson == [garbage |-> "not json"]

\* a reload that answers a text it cannot decode with the empty store
from_str_ModApi_lenient(text) ==
    IF text = NotJson THEN <<ModApi_default>>
    ELSE LET parsed == Parse(SchemaCst(text))
         IN serde_from_slice(parsed.content, parsed.nodes,
                             parsed.nodes[RootNode].children[1], "ModApi")

\* serde_json::from_str::<ModApi>(&json): Result
from_str_ModApi(text) ==
    IF text = NotJson THEN <<>>
    ELSE LET parsed == Parse(SchemaCst(text))
         IN serde_from_slice(parsed.content, parsed.nodes,
                             parsed.nodes[RootNode].children[1], "ModApi")

\* a handle_worker_messages that takes every pending store and keeps the
\* last
handle_worker_messages_all(api, chan) ==
    IF chan = <<>> THEN [mod_api |-> api, messages_chan |-> chan, updated |-> FALSE]
    ELSE [mod_api |-> chan[Len(chan)], messages_chan |-> <<>>, updated |-> TRUE]

\* Server::handle_worker_messages: try_recv takes the oldest pending store
handle_worker_messages(api, chan) ==
    IF chan = <<>> THEN [mod_api |-> api, messages_chan |-> chan, updated |-> FALSE]
    ELSE [mod_api |-> Head(chan), messages_chan |-> Tail(chan), updated |-> TRUE]

\* the texts mod_api.json holds in turn: two schemas, a schema with an entity
\* that is a number, and a text that is not JSON
ValidTexts ==
    {[entities |-> <<[shape |-> "object", description |-> <<<<"d">>>>,
                      on_functions |-> <<[name |-> nOnSpawn, description |-> <<"s">>]>>]>>,
      game_functions |-> <<"object">>],
     [entities |-> <<[shape |-> "object", description |-> <<>>, on_functions |-> <<>>],
                     [shape |-> "object", description |-> <<<<"d">>>>, on_functions |-> <<>>]>>,
      game_functions |-> <<>>]}

FileTexts ==
    ValidTexts
    \cup {[entities |-> <<[shape |-> "number", description |-> <<>>, on_functions |-> <<>>]>>,
            game_functions |-> <<"object">>],
           NotJson}

\* what from_str gives for each of the texts
Reloaded == [text \in FileTexts |-> from_str_ModApi(text)]

\* Server::from_request: the server starts from a file it could load, with
\* the worker thread spawned and one document open
InitWatched ==
    /\ document = ScenarioDocument
    /\ mod_api_file \in {<<text>> : text \in ValidTexts}
    /\ mod_api = from_str_ModApi(mod_api_file[1])[1]
    /\ messages_chan = <<>>
    /\ watcher_recv = <<>>
    /\ worker = [pc |-> "watch", log |-> "none"]
    /\ stores = <<>>
    /\ NoSync
    /\ response = Idle
    /\ trail = NoTrail

\* the file is written (<<text>>) or removed (<<>>); notify reports it
FileChange(file) ==
    /\ Len(watcher_recv) < MaxEvents
    /\ file # mod_api_file
    /\ mod_api_file' = file
    /\ watcher_recv' = Append(watcher_recv,
                              [ok |-> TRUE, kind |-> IF file = <<>> THEN "Remove" ELSE "Modify"])
    /\ UNCHANGED <<sync_vars, document, mod_api, response, trail, messages_chan, worker, stores>>

\* the file is read by some process, or the watcher reports an error
FileEvent(event) ==
    /\ Len(watcher_recv) < MaxEvents
    /\ watcher_recv' = Append(watcher_recv, event)
    /\ UNCHANGED <<sync_vars, document, mod_api, response, trail, messages_chan, mod_api_file, worker,
                   stores>>

\* the worker loop: watcher.watch(..) is retried until it succeeds, which
\* it does once the file exists
Watch ==
    /\ worker.pc = "watch"
    /\ mod_api_file # <<>>
    /\ worker' = [worker EXCEPT !.pc = "update"]
    /\ UNCHANGED <<sync_vars, document, mod_api, response, trail, messages_chan, watcher_recv,
                   mod_api_file, stores>>

\* ServerWorker::update: watcher_recv.try_recv() and the look at the event
UpdateTryRecv ==
    /\ worker.pc = "update"
    /\ IF watcher_recv = <<>>
       THEN /\ worker' = [worker EXCEPT !.pc = "watch"]
            /\ UNCHANGED watcher_recv
       ELSE /\ watcher_recv' = Tail(watcher_recv)
            /\ worker' = IF ~ Head(watcher_recv).ok
                         THEN [pc |-> "watch", log |-> "warn"]
                         ELSE IF Head(watcher_recv).kind = "Access"
                         THEN [worker EXCEPT !.pc = "watch"]
                         ELSE [worker EXCEPT !.pc = "reload"]
    /\ UNCHANGED <<sync_vars, document, mod_api, response, trail, messages_chan, mod_api_file, stores>>

\* ServerWorker::update: read_to_string, from_str and send.  log keeps what
\* the reload came to: "unreadable", "error" (logged) or "sent" (logged)
UpdateReload ==
    /\ worker.pc = "reload"
    /\ LET mod_api_new == IF mod_api_file = <<>> THEN <<>>
                          ELSE Reloaded[mod_api_file[1]]
       IN IF mod_api_file = <<>>
          THEN /\ worker' = [pc |-> "watch", log |-> "unreadable"]
               /\ UNCHANGED messages_chan
          ELSE IF mod_api_new = <<>>
          THEN /\ worker' = [pc |-> "watch", log |-> "error"]
               /\ UNCHANGED messages_chan
          ELSE /\ Len(messages_chan) < MaxPending
               /\ worker' = [pc |-> "watch", log |-> "sent"]
               /\ messages_chan' = Append(messages_chan, mod_api_new[1])
    /\ UNCHANGED <<sync_vars, document, mod_api, response, trail, watcher_recv, mod_api_file>>

\* the server takes a message of the client: handle_worker_messages first
HandleMessage ==
    /\ response = Idle
    /\ LET taken == handle_worker_messages(mod_api, messages_chan)
       IN /\ mod_api' = taken.mod_api
          /\ messages_chan' = taken.messages_chan
          /\ response' = [op |-> "message", updated |-> taken.updated]
    /\ UNCHANGED <<sync_vars, document, trail, watcher_recv, mod_api_file, worker, stores>>

\* the message is textDocument/hover
HandleHover(row, col) ==
    /\ response.op = "message"
    /\ response' = [op |-> "hover", updated |-> response.updated, row |-> row, col |-> col,
                    result |-> handle_hover(mod_api, document, row, col)]
    /\ UNCHANGED <<document, mod_api, trail, watcher_vars, sync_vars>>

NextWatched ==
    \/ \E file \in {<<>>} \cup {<<text>> : text \in FileTexts} : FileChange(file)
    \/ \E event \in {[ok |-> TRUE, kind |-> "Access"], [ok |-> FALSE, kind |-> "Error"]} :
           FileEvent(event)
    \/ Watch
    \/ UpdateTryRecv
    \/ UpdateReload /\ UNCHANGED stores
    \/ HandleMessage
    \/ \E pos \in {<<5, 4>>, <<4, 4>>} : HandleHover(pos[1], pos[2])
    \/ Receive

SpecWatched == InitWatched /\ [][NextWatched]_vars

\* the stores of the texts that load
WholeStores == {from_str_ModApi(text)[1] : text \in ValidTexts}

\* C11: handle_worker_messages takes at most one pending store per handled
\* message and puts it in place of mod_api as a whole: mod_api is always the
\* store of one file that loaded, it changes only at the start of a message,
\* to the oldest pending store, which leaves the channel alone, and the hover
\* that follows is answered from the store as it then stands.
C11_WholeStoreSwap ==
    /\ [](mod_api \in WholeStores)
    /\ [][/\ Len(messages_chan') >= Len(messages_chan) - 1
          /\ document' = document
          /\ mod_api' # mod_api =>
                 /\ response = Idle
                 /\ response'.op = "message"
                 /\ messages_chan # <<>>
                 /\ mod_api' = Head(messages_chan)
                 /\ messages_chan' = Tail(messages_chan)
          /\ (response # Idle /\ response'.op = "hover" /\ response' # response) =>
                 /\ mod_api' = mod_api
                 /\ response'.result
                      = handle_hover(mod_api, document, response'.row, response'.col)]_vars

\* a hover answered after a store was taken while another one still waits
C11_Witness ==
    /\ response # Idle
    /\ response.op = "hover"
    /\ response.updated
    /\ messages_chan # <<>>
    /\ mod_api # Head(messages_chan)

\* C12: a reload that finds the file unreadable or its text not loading
\* sends nothing: the channel and mod_api stay as they are and the worker
\* goes back to watching; every store that waits is one of a file that
\* loaded.
C12_FailedReloadSendsNothing ==
    /\ [](\A i \in 1..Len(messages_chan) : messages_chan[i] \in WholeStores)
    /\ [][(/\ worker.pc = "reload"
           /\ worker' # worker
           /\ \/ mod_api_file = <<>>
              \/ mod_api_file[1] \notin ValidTexts)
          => /\ messages_chan' = messages_chan
             /\ mod_api' = mod_api
             /\ worker'.pc = "watch"
             /\ worker'.log \in {"unreadable", "error"}]_vars

\* a message handled after a failed reload, with the store of a file that is
\* no longer the one on disk, and the worker running on
C12_Witness ==
    /\ worker.log \in {"unreadable", "error"}
    /\ worker.pc = "update"
    /\ response # Idle
    /\ response.op = "hover"
    /\ messages_chan = <<>>
    /\ mod_api \in WholeStores
    /\ mod_api_file # <<>>
    /\ mod_api_file[1] \notin ValidTexts

(***************************************************************************)
(* The watcher with the history of its channel: the order in which stores  *)
(* are sent and applied, and what the server ends with once the file is    *)
(* left alone.                                                             *)
(***************************************************************************)
\* how many stores are sent before the file is left alone
MaxSent == 2

\* Server::from_request, with the history started at the startup store
InitOrdered ==
    /\ document = ScenarioDocument
    /\ mod_api_file \in {<<text>> : text \in ValidTexts}
    /\ mod_api = from_str_ModApi(mod_api_file[1])[1]
    /\ messages_chan = <<>>
    /\ watcher_recv = <<>>
    /\ worker = [pc |-> "watch", log |-> "none"]
    /\ stores = <<mod_api>>
    /\ NoSync
    /\ response = Idle
    /\ trail = NoTrail

\* ServerWorker::update with the store it sends, if any, added to the
\* history
RecordedReload ==
    /\ UpdateReload
    /\ stores' = IF messages_chan' = messages_chan THEN stores
                 ELSE Append(stores, messages_chan'[Len(messages_chan')])

\* the file is written or removed, until MaxSent stores were sent
BoundedFileChange(file) ==
    /\ Len(stores) <= MaxSent
    /\ FileChange(file)

\* the steps of the worker thread
WorkerStep ==
    \/ Watch
    \/ UpdateTryRecv
    \/ RecordedReload

NextOrdered ==
    \/ \E file \in {<<>>} \cup {<<text>> : text \in FileTexts} : BoundedFileChange(file)
    \/ \E event \in {[ok |-> TRUE, kind |-> "Access"], [ok |-> FALSE, kind |-> "Error"]} :
           FileEvent(event)
    \/ WorkerStep
    \/ HandleMessage
    \/ HandleHover(5, 4)
    \/ Receive

\* the worker thread runs on (its loop never ends), the client keeps
\* sending messages and the server keeps handling them
SpecOrdered ==
    /\ InitOrdered
    /\ [][NextOrdered]_vars
    /\ WF_vars(WorkerStep)
    /\ WF_vars(HandleMessage)
    /\ WF_vars(Receive)

\* how many of the sent stores the server has taken
Applied == Len(stores) - 1 - Len(messages_chan)

\* C30: the stores are applied in the order they were sent, one per call of
\* handle_worker_messages: the stores that wait are the last ones sent, in
\* that order; mod_api is the startup store while none was taken and the
\* store sent last among those taken afterwards; the number of stores taken
\* never goes down and goes up by one at most in a step; and once the
\* worker sends no more, mod_api ends as the store sent last.
C30_AppliedInSendOrder ==
    /\ [](/\ Applied >= 0
          /\ messages_chan = SubSeq(stores, Applied + 2, Len(stores))
          /\ mod_api = stores[Applied + 1])
    /\ [][/\ Applied' \in {Applied, Applied + 1}
          /\ Applied' = Applied + 1 => (response = Idle /\ response'.op = "message")]_vars
    /\ <>[](mod_api = stores[Len(stores)])

\* a message handled with the third store of the history, which has the
\* text of the startup store, in place, after the second, of another text,
\* was in place
C30_Witness ==
    /\ Len(stores) >= 3
    /\ stores[3] = stores[1]
    /\ stores[2] # stores[1]
    /\ messages_chan = <<>>
    /\ mod_api = stores[3]
    /\ response # Idle
    /\ response.op = "message"
    /\ response.updated

\* C25: a reload of a schema file that holds malformed entries next to well
\* formed ones sends an update, and the store sent holds exactly the
\* entries that are well formed.
C25_PartialSchemaReloads ==
    [][(/\ worker.pc = "reload"
        /\ worker' # worker
        /\ mod_api_file # <<>>
        /\ mod_api_file[1] # NotJson
        /\ mod_api_file[1] \notin ValidTexts)
       => LET schema == mod_api_file[1]
              sent == messages_chan'[Len(messages_chan')]
          IN /\ Len(messages_chan') = Len(messages_chan) + 1
             /\ DOMAIN sent.entities
                  = {EntityKeys[i] : i \in {j \in 1..Len(schema.entities) :
                                                schema.entities[j].shape = "object"}}
             /\ DOMAIN sent.game_functions
                  = {GameFunctionKeys[i] : i \in {j \in 1..Len(schema.game_functions) :
                                                      schema.game_functions[j] = "object"}}]_vars

(***************************************************************************)
(* text_sync.rs: didOpen and didChange over the document map.  A path is   *)
(* the sequence of its segments; the in-memory file system is the set of   *)
(* the paths that exist.                                                   *)
(***************************************************************************)
\* how many content-change entries a didChange carries at most
MaxChanges == 2

ModsDir == <<"m", "o", "d", "s">>

GunName == <<"t", "i", "r", "e", "d", "-", "g", "u", "n", ".", "g", "r", "u", "g">>

\* the paths of the documents the client opens, and the directory above them
SyncFiles == {<<ModsDir, DocName>>, <<ModsDir, GunName>>}

SyncPaths == SyncFiles \cup {<<ModsDir>>}

\* the texts the client sends
SyncTexts == {ScenarioCst, HelperCst(nC), SignatureCst(1, tI32)}

\* path.ancestors().rev(): the root first, the path itself last
ancestors_rev(path) == [i \in 1..(Len(path) + 1) |-> SubSeq(path, 1, i - 1)]

\* handle_did_open: the loop over the ancestors; the last one is the file
RECURSIVE did_open_loop(_, _, _, _, _)
did_open_loop(map, fs, paths, idx, cst) ==
    LET path == paths[idx]
        is_file == idx = Len(paths)
        new == Document_new(cst, path[Len(path)])
    IN IF is_file
       THEN IF path \in fs
            THEN [document_map |-> map, file_system |-> fs, panic |-> FALSE]
            ELSE IF new.panic
            THEN [document_map |-> map, file_system |-> fs \cup {path}, panic |-> TRUE]
            ELSE [document_map |-> MapInsert(map, path, new),
                  file_system |-> fs \cup {path}, panic |-> FALSE]
       ELSE did_open_loop(map, IF path \in fs THEN fs ELSE fs \cup {path},
                          paths, idx + 1, cst)

\* a didOpen that builds the Document anew for a path that exists already
handle_did_open_again(map, fs, path, cst) ==
    LET new == Document_new(cst, path[Len(path)])
    IN [document_map |-> MapInsert(map, path, new),
        file_system |-> fs \cup {SubSeq(path, 1, i) : i \in 0..Len(path)},
        panic |-> new.panic]

\* Server::handle_did_open
handle_did_open(map, fs, path, cst) ==
    did_open_loop(map, fs, ancestors_rev(path), 1, cst)

\* a didChange that takes the last content-change entry
handle_did_change_last(map, path, changes) ==
    LET new == IF changes = <<>> THEN [panic |-> TRUE]
               ELSE Document_new(changes[Len(changes)], path[Len(path)])
    IN IF path \notin DOMAIN map \/ new.panic
       THEN [document_map |-> map, panic |-> TRUE]
       ELSE [document_map |-> [map EXCEPT ![path] = new], panic |-> FALSE]

\* Server::handle_did_change: document_map.get_mut(path).unwrap() and
\* content_changes[0] panic when there is no such document or no entry
handle_did_change(map, path, changes) ==
    LET new == IF changes = <<>> THEN [panic |-> TRUE]
               ELSE Document_new(changes[1], path[Len(path)])
    IN IF path \notin DOMAIN map \/ new.panic
       THEN [document_map |-> map, panic |-> TRUE]
       ELSE [document_map |-> [map EXCEPT ![path] = new], panic |-> FALSE]

\* handle_hover: the existence check and the document lookup after it
hover_lookup(map, fs, api, path, row, col) ==
    IF path \notin fs THEN Reply("ok", <<>>)
    ELSE IF path \notin DOMAIN map THEN Reply("panic", <<>>)
    ELSE Reply("ok", handle_hover(api, map[path], row, col))

\* ServerWrapper::handle_message, the arm of "initialize": a second
\* initialize panics, the first builds the Server (Server::from_request: no
\* document is open, the file system is empty) and makes the wrapper Active
handle_initialize(state, map, fs) ==
    IF state = "Active"
    THEN [wrapper |-> state, document_map |-> map, file_system |-> fs, panic |-> TRUE]
    ELSE [wrapper |-> "Active", document_map |-> <<>>, file_system |-> {},
          panic |-> FALSE]

\* ServerWrapper::new: Inactive, no Server yet
InitSync ==
    /\ wrapper = "Inactive"
    /\ document_map = <<>>
    /\ file_system = {}
    /\ document = ScenarioDocument
    /\ mod_api = SampleApi
    /\ response = Idle
    /\ trail = NoTrail
    /\ NoWatcher

\* textDocument/didOpen; a path without the .grug suffix is only ever
\* opened when it exists already
DidOpen(path, cst) ==
    /\ response = Idle
    /\ wrapper = "Active"
    /\ path \in SyncFiles \/ path \in file_system
    /\ LET done == handle_did_open(document_map, file_system, path, cst)
       IN /\ document_map' = done.document_map
          /\ file_system' = done.file_system
          /\ response' = [op |-> "didOpen", path |-> path, changes |-> <<cst>>,
                          panic |-> done.panic]
    /\ UNCHANGED <<document, mod_api, trail, watcher_vars, wrapper>>

\* textDocument/didChange
DidChange(path, changes) ==
    /\ response = Idle
    /\ wrapper = "Active"
    /\ LET done == handle_did_change(document_map, path, changes)
       IN /\ document_map' = done.document_map
          /\ response' = [op |-> "didChange", path |-> path, changes |-> changes,
                          panic |-> done.panic]
    /\ UNCHANGED <<document, mod_api, trail, watcher_vars, file_system, wrapper>>

\* textDocument/hover for a path
HoverPath(path, row, col) ==
    /\ response = Idle
    /\ wrapper = "Active"
    /\ LET reply == hover_lookup(document_map, file_system, mod_api, path, row, col)
       IN response' = [op |-> "hover", path |-> path, changes |-> <<>>,
                       panic |-> reply.outcome = "panic", reply |-> reply]
    /\ UNCHANGED <<document, mod_api, trail, watcher_vars, sync_vars>>

\* a notification or request that needs the Server, received before the
\* first initialize: server.unwrap_or_log(..) panics
BeforeInitialize(method) ==
    /\ response = Idle
    /\ wrapper # "Active"
    /\ response' = [op |-> "inactive", method |-> method, path |-> <<>>,
                    changes |-> <<>>, panic |-> TRUE]
    /\ UNCHANGED <<document, mod_api, trail, watcher_vars, sync_vars>>

\* initialize
Initialize ==
    /\ response = Idle
    /\ LET done == handle_initialize(wrapper, document_map, file_system)
       IN /\ wrapper' = done.wrapper
          /\ document_map' = done.document_map
          /\ file_system' = done.file_system
          /\ response' = [op |-> "initialize", path |-> <<>>, changes |-> <<>>,
                          panic |-> done.panic]
    /\ UNCHANGED <<document, mod_api, trail, watcher_vars>>

\* the loop takes the next message, unless the server has panicked
NextNotification ==
    /\ response # Idle
    /\ ~ response.panic
    /\ response' = Idle
    /\ UNCHANGED <<document, mod_api, trail, watcher_vars, sync_vars>>

ChangeLists == UNION {[1..n -> SyncTexts] : n \in 0..MaxChanges}

NextSync ==
    \/ \E path \in SyncPaths, cst \in SyncTexts : DidOpen(path, cst)
    \/ \E path \in SyncFiles, changes \in ChangeLists : DidChange(path, changes)
    \/ \E path \in SyncPaths \cup {<<>>} : HoverPath(path, 0, 0)
    \/ \E method \in {"didOpen", "didChange", "hover"} : BeforeInitialize(method)
    \/ Initialize
    \/ NextNotification

SpecSync == InitSync /\ [][NextSync]_vars

\* the name and range of every top-level function declaration of a tree
\* whose name token is of the given kind, in source order
DeclaredFunctions(content, tree, kind) ==
    LET decls == InSourceOrder(tree,
                     {d \in Range(tree[RootNode].children) :
                         /\ tree[d].kind = "function_declaration"
                         /\ tree[child_by_field_name(tree, d, "name")].kind = kind})
    IN [i \in 1..Len(decls) |->
           [name |-> node_get_content(content, tree, child_by_field_name(tree, decls[i], "name")),
            range |-> node_range(tree, decls[i])]]

NameAndRange(table) == [i \in 1..Len(table) |-> [name |-> table[i].name, range |-> table[i].range]]

\* C22: a didChange for an open document leaves that document with the text
\* of the first content-change entry as its content, the tree of that text,
\* and global variables, helpers and on-functions that are the declarations
\* of that text, in order; the other open documents, the set of open
\* documents and the file system stay as they are.
C22_DidChangeRebuilds ==
    [][(response = Idle /\ response'.op = "didChange" /\ ~ response'.panic)
       => LET path == response'.path
              new == document_map'[path]
              parsed == Parse(response'.changes[1])
              globals == InSourceOrder(new.tree, GlobalDecls(new))
          IN /\ path \in DOMAIN document_map
             /\ new.content = parsed.content
             /\ new.tree = parsed.nodes
             /\ new.global_vars
                  = [i \in 1..Len(globals) |-> DeclaredVariable(new, globals[i])]
             /\ NameAndRange(new.helpers)
                  = DeclaredFunctions(parsed.content, parsed.nodes, "helper_identifier")
             /\ NameAndRange(new.on_functions)
                  = DeclaredFunctions(parsed.content, parsed.nodes, "on_identifier")
             /\ DOMAIN document_map' = DOMAIN document_map
             /\ \A other \in DOMAIN document_map \ {path} :
                    document_map'[other] = document_map[other]
             /\ file_system' = file_system]_vars

\* a didChange with two entries of different texts has replaced a document
\* that held a third text, while another document is open
C22_Witness ==
    /\ response.op = "didChange"
    /\ ~ response.panic
    /\ Len(response.changes) = 2
    /\ response.changes[1] # response.changes[2]
    /\ document_map[response.path].content = Parse(response.changes[1]).content
    /\ document_map[response.path].helpers # <<>>
    /\ \E other \in DOMAIN document_map :
           /\ other # response.path
           /\ document_map[other].content # document_map[response.path].content

\* C28: every path for which the existence check of the file system
\* succeeds has a Document in document_map, so that a hover for such a path
\* finds its document: the server does not panic on the lookup.
C28_ExistingPathsHaveDocuments ==
    /\ \A path \in file_system : path \in DOMAIN document_map
    /\ response.op = "hover" => ~ response.panic

\* C29: a didOpen for a path that exists in the file system leaves the
\* document map (the Document of that path with it) and the file system as
\* they are.
C29_SecondOpenChangesNothing ==
    [][(response = Idle /\ response'.op = "didOpen" /\ response'.path \in file_system)
       => /\ document_map' = document_map
          /\ file_system' = file_system
          /\ ~ response'.panic]_vars

\* a document opened once has been opened again with another text, while
\* another document is open
C29_Witness ==
    /\ response.op = "didOpen"
    /\ response.path \in DOMAIN document_map
    /\ document_map[response.path].content # Parse(response.changes[1]).content
    /\ \E other \in DOMAIN document_map : other # response.path


\* C27: an initialize received while the server is Active does not panic and
\* leaves the wrapper, the documents and the file system as they were, so
\* that the loop goes on to the next message
C27_SecondInitializeRejected ==
    [][(response = Idle /\ response'.op = "initialize" /\ wrapper = "Active")
       => /\ ~ response'.panic
          /\ UNCHANGED sync_vars]_vars

====
